---- MODULE Spec2Model ----
(***************************************************************************)
(* Rate-adaptive execution scheduler of the volume bot:                    *)
(*   - RequestQueue (src/unnamed/part_003): the paced, two-tier queue and  *)
(*     its drain loop process();                                           *)
(*   - the cooldown coordinator and the per-wallet worker loops            *)
(*     (src/usage-tracker.mjs);                                            *)
(*   - QuoteCache (src/utils/quoteCache.ts): the cache of quotes.          *)
(* Time is the value of Date.now() in milliseconds.  Rates are kept in     *)
(* tenths of a request per second (4 req/s is 40), so that the program's   *)
(* half-step rates (3.5, 2.5) are integers; minDelay = 1000 / rate is the  *)
(* exact fraction num/den of milliseconds.                                 *)
(***************************************************************************)
EXTENDS Integers, Sequences, FiniteSets, TLC

VARIABLES
  \* ---- RequestQueue (part_003:159-246)
  queue,             \* Seq of item ids: this.queue (front is index 1)
  processing,        \* this.processing
  requestsPerSecond, \* this.requestsPerSecond, in tenths of a request per second
  minDelay,          \* this.minDelay, the fraction [num, den] of milliseconds
  lastRequestTime,   \* this.lastRequestTime
  activeRequests,    \* this.activeRequests
  proc,              \* the live invocations of process(): where each one is suspended
  \* ---- the clock and the work items
  now,               \* Date.now()
  nextId,            \* number of add() calls made so far
  prio,              \* priority each item was added with
  status,            \* "new" | "queued" | "running" | "resolved" | "rejected"
  \* ---- history (not program state)
  dispatched,        \* the ids of the items dispatched so far, in order
  lastGap,           \* the latest dispatch: time since the one before, minDelay then in force
  waitingAtAdd,      \* for each item, the items waiting in the queue when it was added
  cleared,           \* clearQueue() has been called
  loopStarts,        \* number of times add() started the drain loop
  rateCalls,         \* number of setRequestsPerSecond() calls made so far
  result,            \* for each item, what its work settled with and what the
                     \* promise returned by add() settled with
  \* ---- cooldown coordinator (usage-tracker.mjs:2574-2603)
  COOLDOWN_MODE,
  cooldownStartTime,
  rateLimitFailureCount,
  lastFailureTime,
  consecutiveCooldowns,
  consecutiveSuccesses,  \* counted up to the 10 that recordSuccess() tests for
  lastAdaptiveCheck,
  sellQueue,             \* Seq of wallets <<session, walletIndex>>
  isSellQueueProcessing,
  botRunning,            \* session.botRunning of each session
  restoreAt,             \* due times of the pending "restore 4 req/s" timeouts
  \* ---- worker loops (usage-tracker.mjs:4774-4860), one per wallet
  worker,                \* where each loop is suspended: [pc, wake, att, ctx, idx, item]
  tokens,                \* whether each wallet holds tokens of the traded mint
  \* ---- history (not program state)
  event,                 \* what the latest step of a worker did, "none" once the clock moves
  prevFailure,           \* when the latest rate-limit failure was recorded in Normal
                         \* with no success since, 0 if there is none
  erased,                \* when the rate-limit failure was recorded that the latest
                         \* success in Normal made forgotten, 0 if none or long ago
  envFaults,             \* answers of the outside world other than the expected one, so far
  holds,                 \* entries into Cooldown, and re-entries after a failed
                         \* resumption test, since the last Cooldown -> Normal
  owed,                  \* the wallets that the latest buildSellQueue() of their
                         \* session pushed and whose sell is not submitted yet
  lastAdjust,            \* when recordSuccess() or recordFailure() last called
                         \* setRequestsPerSecond(), 0 if never or long ago
  streak,                \* successes recorded since the latest recorded failure or
                         \* adaptive call, counted up to 10
  tally,                 \* whether the latest step of a worker met a dust error, what
                         \* it added to session.tradingStats.failedTxs and to
                         \* failedSells of processSellQueue(), and the attempts at
                         \* creating a transaction that performBuy or performSell had
                         \* made when it took the answer, whether it made an
                         \* adaptive call to setRequestsPerSecond(), whether it
                         \* was a trade that succeeded, and whether it recorded a
                         \* rate-limit failure
  \* ---- QuoteCache (utils/quoteCache.ts:9-106)
  cache,                 \* this.cache: a function from the keys present to their entries
  hits,                  \* this.hits
  misses,                \* this.misses
  \* ---- history (not program state)
  calls,                 \* the calls made on the cache so far, with what get() returned
  \* ---- the work items of getBuyTxWithJupiter / getSellTxWithJupiter (part_004:587-752)
  job,                   \* for each item, where its work is suspended, its arguments and
                         \* whether its fetch of a quote succeeded
  \* ---- history (not program state)
  api,                   \* the requests sent to the Jupiter API: how many by each item,
                         \* when the latest one was sent and how long after the one before
  \* ---- the probe of the rate limit (part_000:7-111)
  probe                  \* where its loop is suspended, its variables
                         \* DELAY_BETWEEN_REQUESTS, totalRequests, successfulRequests,
                         \* failedRequests, rateLimitHits, isRateLimited,
                         \* firstRateLimitTime, cooldownMs and, as history, its latest
                         \* response, its latest sleep and the rate-limited responses
                         \* since the latest successful one

qvars == <<queue, processing, requestsPerSecond, minDelay, lastRequestTime,
           activeRequests, proc, nextId, prio, status, dispatched, lastGap,
           waitingAtAdd, cleared, loopStarts, rateCalls, result>>

\* the queue's variables that the coordinator never touches
qonly == <<queue, processing, lastRequestTime, activeRequests, proc, nextId, prio,
           status, dispatched, lastGap, waitingAtAdd, cleared, loopStarts, rateCalls,
           result>>

cvars == <<COOLDOWN_MODE, cooldownStartTime, rateLimitFailureCount, lastFailureTime,
           consecutiveCooldowns, consecutiveSuccesses, lastAdaptiveCheck, sellQueue,
           isSellQueueProcessing, botRunning, restoreAt, worker, tokens, event,
           prevFailure, envFaults, holds, owed, lastAdjust, streak, tally, erased>>

kvars == <<cache, hits, misses, calls>>

jvars == <<job, api>>

pvars == <<probe>>

vars == <<queue, processing, requestsPerSecond, minDelay, lastRequestTime,
          activeRequests, proc, now, nextId, prio, status, dispatched, lastGap,
          waitingAtAdd, cleared, loopStarts, rateCalls, result, COOLDOWN_MODE,
          cooldownStartTime, rateLimitFailureCount, lastFailureTime,
          consecutiveCooldowns, consecutiveSuccesses, lastAdaptiveCheck, sellQueue,
          isSellQueueProcessing, botRunning, restoreAt, worker, tokens, event,
          prevFailure, envFaults, holds, owed, lastAdjust, streak, tally, erased,
          cache, hits, misses, calls, job, api, probe>>

----------------------------------------------------------------------------
(* Bounds of the model *)
MaxItems == 3        \* add() calls in one behaviour
MaxProc == 2         \* process() invocations that may be live at once
QHorizon == 375      \* milliseconds of clock the queue model follows
QTickMs == 125       \* granularity of the clock in the queue model
MaxRateCalls == 1    \* setRequestsPerSecond() calls in one behaviour

(* Program constants *)
maxConcurrent == 1
MsPerSecond == 1000
MinRate == 1
MaxRate == 10
SlotPollMs == 100
RescheduleMs == 10

Items == 1..MaxItems
Procs == 1..MaxProc

\* n requests per second, in the model's tenths
Rps(n) == n * 10

\* Date.now() is far past any delay of the program when the module is loaded.
StartTime == MsPerSecond
QMaxTime == StartTime + QHorizon

Min(a, b) == IF a < b THEN a ELSE b
Max(a, b) == IF a > b THEN a ELSE b

----------------------------------------------------------------------------
(* Timers: sleep(ms) and setTimeout(f, ms).  A timer fires no earlier than  *)
(* its delay; at the horizon of the model the clock stands for "that time   *)
(* or later", so every pending timer may fire.                              *)
NoTimer == [pc |-> "none", start |-> 0, num |-> 0, den |-> 1]
Timer(pc, num, den) == [pc |-> pc, start |-> now, num |-> num, den |-> den]
Expired(t, horizon) ==
  \/ (now - t.start) * t.den >= t.num
  \/ now >= horizon

----------------------------------------------------------------------------
(* RequestQueue *)

\* The number NaN.  It is kept as a rate below every rate of the model; as a
\* delay it is the fraction 0/0, with which every comparison is false.
NaN == 0 - 1
MathMin(a, b) == IF a = NaN \/ b = NaN THEN NaN ELSE Min(a, b)
MathMax(a, b) == IF a = NaN \/ b = NaN THEN NaN ELSE Max(a, b)

\* minDelay = 1000 / requestsPerSecond
MinDelayOf(rate) ==
  IF rate = NaN THEN [num |-> 0, den |-> 0]
  ELSE [num |-> MsPerSecond * 10, den |-> rate]

\* Math.max(1, Math.min(rate, 10))
ClampRate(rate) == MathMax(Rps(MinRate), MathMin(rate, Rps(MaxRate)))

\* setRequestsPerSecond(rate)
SetRate(rate) ==
  /\ requestsPerSecond' = ClampRate(rate)
  /\ minDelay' = MinDelayOf(ClampRate(rate))

\* add(): unshift for 'high', push otherwise
EnqueueAlwaysPush(q, i, p) == Append(q, i)
Enqueue(q, i, p) == IF p = "high" THEN <<i>> \o q ELSE Append(q, i)

\* while (this.activeRequests >= this.maxConcurrent)
SlotBusyOffByOne == activeRequests > maxConcurrent
SlotBusy == activeRequests >= maxConcurrent

\* timeSinceLastRequest < this.minDelay
TooSoon == (now - lastRequestTime) * minDelay.den < minDelay.num

\* process(), lines 213-224: shift, dispatch, re-schedule in 10 ms.
\* q and st are the queue and the items' status as the caller left them.
Dispatch(q, st, k) ==
  /\ proc' = [proc EXCEPT ![k] = Timer("timer", RescheduleMs, 1)]
  /\ IF Len(q) = 0
       THEN /\ queue' = q
            /\ status' = st
            /\ UNCHANGED <<activeRequests, lastRequestTime, dispatched, lastGap>>
       ELSE /\ queue' = Tail(q)
            /\ activeRequests' = activeRequests + 1
            /\ lastRequestTime' = now
            /\ status' = [st EXCEPT ![Head(q)] = "running"]
            /\ dispatched' = Append(dispatched, Head(q))
            /\ lastGap' = [first |-> dispatched = <<>>, at |-> now,
                           gap |-> now - lastRequestTime,
                           num |-> minDelay.num, den |-> minDelay.den]

\* process(), lines 205-211: the pacing check
Pace(q, st, k) ==
  IF TooSoon
    THEN /\ proc' = [proc EXCEPT ![k] =
                 Timer("pace", minDelay.num - (now - lastRequestTime) * minDelay.den,
                       minDelay.den)]
         /\ queue' = q
         /\ status' = st
         /\ UNCHANGED <<activeRequests, lastRequestTime, dispatched, lastGap>>
    ELSE Dispatch(q, st, k)

\* process(), lines 200-203: wait for a free slot
AwaitSlot(q, st, k) ==
  IF SlotBusy
    THEN /\ proc' = [proc EXCEPT ![k] = Timer("waitSlot", SlotPollMs, 1)]
         /\ queue' = q
         /\ status' = st
         /\ UNCHANGED <<activeRequests, lastRequestTime, dispatched, lastGap>>
    ELSE Pace(q, st, k)

\* the value process() leaves in this.processing when it finds the queue empty
FlagWhenEmptyStuck == TRUE
FlagWhenEmpty == FALSE

\* the value process() gives this.processing when it finds work (line 198)
FlagWhenBusyUnset == processing
FlagWhenBusy == TRUE

\* process() from its entry to its first suspension (lines 192-203)
ProcessFrom(q, st, k) ==
  IF Len(q) = 0
    THEN /\ processing' = FlagWhenEmpty
         /\ proc' = [proc EXCEPT ![k] = NoTimer]
         /\ queue' = q
         /\ status' = st
         /\ UNCHANGED <<activeRequests, lastRequestTime, dispatched, lastGap>>
    ELSE /\ processing' = FlagWhenBusy
         /\ AwaitSlot(q, st, k)

FreeProcs == {k \in Procs : proc[k].pc = "none"}
LowestFree == CHOOSE k \in FreeProcs : \A j \in FreeProcs : k <= j

\* add(fn, priority): enqueue, then start process() unless one is running
QAdd(p) ==
  /\ nextId < MaxItems
  /\ LET i == nextId + 1
         q == Enqueue(queue, i, p)
         st == [status EXCEPT ![i] = "queued"]
     IN /\ nextId' = i
        /\ prio' = [prio EXCEPT ![i] = p]
        /\ waitingAtAdd' = [waitingAtAdd EXCEPT ![i] = {queue[j] : j \in 1..Len(queue)}]
        /\ IF ~processing
             THEN /\ FreeProcs # {}
                  /\ loopStarts' = loopStarts + 1
                  /\ ProcessFrom(q, st, LowestFree)
             ELSE /\ queue' = q
                  /\ status' = st
                  /\ UNCHANGED <<processing, proc, activeRequests, lastRequestTime,
                                 dispatched, lastGap, loopStarts>>
  /\ UNCHANGED <<requestsPerSecond, minDelay, now, cleared, rateCalls, result>>
Add(p) ==
  /\ QAdd(p)
  /\ UNCHANGED <<cvars, kvars, jvars, pvars>>

\* setTimeout(() => this.process(), 10) fires
QTimerFire(k) ==
  /\ proc[k].pc = "timer"
  /\ Expired(proc[k], QMaxTime)
  /\ ProcessFrom(queue, status, k)
  /\ UNCHANGED <<requestsPerSecond, minDelay, now, nextId, prio, waitingAtAdd,
                 cleared, loopStarts, rateCalls, result>>
TimerFire(k) ==
  /\ QTimerFire(k)
  /\ UNCHANGED <<cvars, kvars, jvars, pvars>>

\* sleep(100) of the slot loop returns: the while condition is tested again
QWakeSlot(k) ==
  /\ proc[k].pc = "waitSlot"
  /\ Expired(proc[k], QMaxTime)
  /\ AwaitSlot(queue, status, k)
  /\ UNCHANGED <<processing, requestsPerSecond, minDelay, now, nextId, prio,
                 waitingAtAdd, cleared, loopStarts, rateCalls, result>>
WakeSlot(k) ==
  /\ QWakeSlot(k)
  /\ UNCHANGED <<cvars, kvars, jvars, pvars>>

\* sleep(minDelay - timeSinceLastRequest) returns: the item is dispatched
QWakePace(k) ==
  /\ proc[k].pc = "pace"
  /\ Expired(proc[k], QMaxTime)
  /\ Dispatch(queue, status, k)
  /\ UNCHANGED <<processing, requestsPerSecond, minDelay, now, nextId, prio,
                 waitingAtAdd, cleared, loopStarts, rateCalls, result>>
WakePace(k) ==
  /\ QWakePace(k)
  /\ UNCHANGED <<cvars, kvars, jvars, pvars>>

\* fn().finally(() => { this.activeRequests--; }): lines 218-220
ReleasedOnSuccessOnly(n, ok) == IF ok THEN n - 1 ELSE n
Released(n, ok) == n - 1

\* what the work of item i settles with: a value that it returns or an error
\* that it throws, its own
Pending == <<"pending", 0>>
WorkOutcome(i, ok) == <<IF ok THEN "value" ELSE "error", i>>

\* wrappedFn, lines 170-177: resolve(result) or reject(error)
wrappedFnResolvingAll(w) == <<"resolved", IF w[1] = "value" THEN w[2] ELSE 0>>
wrappedFn(w) == IF w[1] = "value" THEN <<"resolved", w[2]>> ELSE <<"rejected", w[2]>>

\* the work of a dispatched item settles: resolve/reject, then finally()
QSettle(i, ok) ==
  /\ status[i] = "running"
  /\ status' = [status EXCEPT ![i] = wrappedFn(WorkOutcome(i, ok))[1]]
  /\ result' = [result EXCEPT ![i] = [work |-> WorkOutcome(i, ok),
                                      future |-> wrappedFn(WorkOutcome(i, ok))]]
  /\ activeRequests' = Released(activeRequests, ok)
  /\ UNCHANGED <<queue, processing, requestsPerSecond, minDelay, lastRequestTime,
                 proc, now, nextId, prio, dispatched, lastGap, waitingAtAdd, cleared,
                 loopStarts, rateCalls>>
Settle(i, ok) ==
  /\ QSettle(i, ok)
  /\ UNCHANGED <<cvars, kvars, jvars, pvars>>

\* rates passed by the callers (2 after recovery, 3.5 adaptive), a value
\* above the band (12), one below it (0), and the number that is no rate
RateInputs == {Rps(2), 35, Rps(12), 0, NaN}

SetRequestsPerSecond(rate) ==
  /\ rateCalls < MaxRateCalls
  /\ rateCalls' = rateCalls + 1
  /\ SetRate(rate)
  /\ UNCHANGED <<queue, processing, lastRequestTime, activeRequests, proc, now,
                 nextId, prio, status, dispatched, lastGap, waitingAtAdd, cleared,
                 loopStarts, result>>
  /\ UNCHANGED <<cvars, kvars, jvars, pvars>>

\* clearQueue()
ClearQueue ==
  /\ queue # <<>>
  /\ queue' = <<>>
  /\ cleared' = TRUE
  /\ UNCHANGED <<processing, requestsPerSecond, minDelay, lastRequestTime,
                 activeRequests, proc, now, nextId, prio, status, dispatched, lastGap,
                 waitingAtAdd, loopStarts, rateCalls, result>>
  /\ UNCHANGED <<cvars, kvars, jvars, pvars>>

\* the clock advances
QTick ==
  /\ now < QMaxTime
  /\ now' = Min(now + QTickMs, QMaxTime)
  /\ UNCHANGED qvars
  /\ UNCHANGED <<cvars, kvars, jvars, pvars>>

QueueInit ==
  /\ queue = <<>>
  /\ processing = FALSE
  /\ requestsPerSecond = Rps(4)
  /\ minDelay = MinDelayOf(Rps(4))
  /\ lastRequestTime = 0
  /\ activeRequests = 0
  /\ proc = [k \in Procs |-> NoTimer]
  /\ nextId = 0
  /\ prio = [i \in Items |-> "none"]
  /\ status = [i \in Items |-> "new"]
  /\ dispatched = <<>>
  /\ lastGap = [first |-> TRUE, at |-> 0, gap |-> 0, num |-> 0, den |-> 1]
  /\ waitingAtAdd = [i \in Items |-> {}]
  /\ cleared = FALSE
  /\ loopStarts = 0
  /\ rateCalls = 0
  /\ result = [i \in Items |-> [work |-> Pending, future |-> Pending]]

----------------------------------------------------------------------------
(* QuoteCache (utils/quoteCache.ts) *)

(* Bounds of the model *)
MaxCalls == 3          \* calls on the cache in one behaviour
CacheTickMs == 10000   \* granularity of the clock in the cache model
CacheHorizon == 30000  \* milliseconds of clock the cache model follows

(* Program constants *)
TTL == 20000
BucketSize == 1000000

\* the mints of the traded pair, and amounts in and across buckets
Mints == {"SOL", "TOKEN"}
Amounts == {1000000, 1000400, 1999999, 5000000}
CacheArgs == {t \in Mints \X Mints \X Amounts : t[1] # t[2]}

\* what get() returns on a miss
Null == 0

\* getCacheKey(inputMint, outputMint, amount)
getCacheKeyNearest(inputMint, outputMint, amount) ==
  inputMint \o "-" \o outputMint \o "-"
    \o ToString(((amount + BucketSize \div 2) \div BucketSize) * BucketSize)
getCacheKey(inputMint, outputMint, amount) ==
  inputMint \o "-" \o outputMint \o "-"
    \o ToString((amount \div BucketSize) * BucketSize)

KeyOf(t) == getCacheKey(t[1], t[2], t[3])

\* age > this.TTL
StaleNever(age) == FALSE
Stale(age) == age > TTL

\* the entry that set() stores
NewEntryAtEpoch(t, quote) ==
  [quote |-> quote, timestamp |-> 0, inputMint |-> t[1], outputMint |-> t[2],
   amount |-> t[3]]
NewEntry(t, quote) ==
  [quote |-> quote, timestamp |-> now, inputMint |-> t[1], outputMint |-> t[2],
   amount |-> t[3]]

\* Map.set and Map.delete
MapSet(m, k, v) == [x \in DOMAIN m \cup {k} |-> IF x = k THEN v ELSE m[x]]
MapDelete(m, ks) == [x \in DOMAIN m \ ks |-> m[x]]

\* no argument
NoArgs == <<"", "", 0>>

Called(op, t, quote, out) ==
  /\ Len(calls) < MaxCalls
  /\ calls' = Append(calls, [op |-> op, args |-> t, quote |-> quote, at |-> now,
                             out |-> out])
  /\ UNCHANGED <<now, qvars, cvars, jvars, pvars>>

\* get(inputMint, outputMint, amount)
Get(t) ==
  LET key == KeyOf(t)
      present == key \in DOMAIN cache
      expired == present /\ Stale(now - cache[key].timestamp)
  IN /\ Called("get", t, Null, IF present /\ ~expired THEN cache[key].quote ELSE Null)
     /\ cache' = IF expired THEN MapDelete(cache, {key}) ELSE cache
     /\ hits' = IF present /\ ~expired THEN hits + 1 ELSE hits
     /\ misses' = IF present /\ ~expired THEN misses ELSE misses + 1

\* set(inputMint, outputMint, amount, quote); the quote of the n-th call is n
CacheSet(t) ==
  LET quote == Len(calls) + 1
  IN /\ Called("set", t, quote, Null)
     /\ cache' = MapSet(cache, KeyOf(t), NewEntry(t, quote))
     /\ UNCHANGED <<hits, misses>>

\* cleanup(), called by the 30 s interval of line 111 or by anyone
Cleanup ==
  /\ Called("cleanup", NoArgs, Null, Null)
  /\ cache' = MapDelete(cache, {k \in DOMAIN cache : Stale(now - cache[k].timestamp)})
  /\ UNCHANGED <<hits, misses>>

\* clear()
Clear ==
  /\ Called("clear", NoArgs, Null, Null)
  /\ cache' = << >>
  /\ hits' = 0
  /\ misses' = 0

\* resetStats()
ResetStats ==
  /\ Called("resetStats", NoArgs, Null, Null)
  /\ hits' = 0
  /\ misses' = 0
  /\ UNCHANGED cache

\* the clock advances
KTick ==
  /\ now < StartTime + CacheHorizon
  /\ now' = now + CacheTickMs
  /\ UNCHANGED <<qvars, cvars, kvars, jvars, pvars>>

CacheInit ==
  /\ cache = << >>
  /\ hits = 0
  /\ misses = 0
  /\ calls = << >>

KNext ==
  \/ \E t \in CacheArgs : Get(t)
  \/ \E t \in CacheArgs : CacheSet(t)
  \/ Cleanup
  \/ Clear
  \/ ResetStats
  \/ KTick

----------------------------------------------------------------------------
(* getBuyTxWithJupiter / getSellTxWithJupiter (part_004:587-752): the work  *)
(* items that the bot gives to the queue.  An item looks its quote up in    *)
(* the cache, fetches it from /quote on a miss and stores it, then fetches  *)
(* the transaction from /swap.                                              *)

\* the amounts of the trades: two amounts of one bucket
JupiterAmounts == {1000000, 1000400}
BuyArgs == {<<"SOL", "TOKEN", a>> : a \in JupiterAmounts}
SellArgs == {<<"TOKEN", "SOL", a>> : a \in JupiterAmounts}

\* the calls of add(): a buy is 'normal' (line 668), a sell 'high' or 'normal'
\* (line 751)
JupiterCalls ==
  {<<"normal", t>> : t \in BuyArgs} \cup
  {<<p, t>> : p \in {"high", "normal"}, t \in SellArgs}

\* what the fetch of /quote comes back with: a quote, a status that is not OK,
\* a body with an error field, a body without outAmount, or no response
QuoteOutcomes == {"ok", "notOk", "errorField", "noOutAmount", "networkError"}
\* what the fetch of /swap comes back with
SwapOutcomes == {"tx", "notOk", "noTx", "networkError"}

\* the tests of the response of /quote, lines 610-619 (693-702): the item goes
\* on unless the fetch rejects, the status is not OK or the body is no quote
QuoteOkByStatusOnly(o) == o \notin {"notOk", "networkError"}
QuoteOk(o) == o = "ok"

NoJob == [pc |-> "new", args |-> NoArgs, quote |-> Null, fetched |-> "none"]
NoApi == [count |-> [i \in Items |-> 0], first |-> TRUE, at |-> 0, gap |-> 0,
          num |-> 0, den |-> 1]

\* fetch(): a request of item i leaves for the Jupiter API
Fetch(i) ==
  [count |-> [api.count EXCEPT ![i] = @ + 1],
   first |-> \A j \in Items : api.count[j] = 0,
   at |-> now, gap |-> now - api.at, num |-> minDelay.num, den |-> minDelay.den]

\* the items that the step of the queue dispatches
Begun == {i \in Items : status[i] # "running" /\ status'[i] = "running"}

\* fn() at its dispatch, from its first line to its first await: the lookup
\* in the cache (lines 595, 678), then the fetch of /quote on a miss (603, 686)
\* or of /swap on a hit (629, 712).  j is job with the arguments of this step.
Begin(i, j) ==
  LET t == j[i].args
      key == KeyOf(t)
      present == key \in DOMAIN cache
      expired == present /\ Stale(now - cache[key].timestamp)
      hit == present /\ ~expired
  IN /\ cache' = IF expired THEN MapDelete(cache, {key}) ELSE cache
     /\ hits' = IF hit THEN hits + 1 ELSE hits
     /\ misses' = IF hit THEN misses ELSE misses + 1
     /\ job' = [j EXCEPT ![i].pc = IF hit THEN "swap" ELSE "quote",
                         ![i].quote = IF hit THEN cache[key].quote ELSE Null]
     /\ api' = Fetch(i)
     /\ UNCHANGED calls

\* the work of the item that the step of the queue dispatches, if it does
RunWork(j) ==
  IF Begun = {}
    THEN job' = j /\ UNCHANGED <<api, kvars>>
    ELSE Begin(CHOOSE i \in Begun : TRUE, j)

\* getBuyTxWithJupiter(...) / getSellTxWithJupiter(...): jupiterQueue.add(fn, p)
JAdd(p, t) ==
  /\ QAdd(p)
  /\ RunWork([job EXCEPT ![nextId + 1].args = t])
  /\ UNCHANGED <<cvars, pvars>>

JTimerFire(k) == QTimerFire(k) /\ RunWork(job) /\ UNCHANGED <<cvars, pvars>>
JWakeSlot(k) == QWakeSlot(k) /\ RunWork(job) /\ UNCHANGED <<cvars, pvars>>
JWakePace(k) == QWakePace(k) /\ RunWork(job) /\ UNCHANGED <<cvars, pvars>>

\* the response of /quote arrives, lines 610-629 (693-712): the item throws,
\* or stores the quote and fetches /swap.  The quote that item i fetches is i.
JQuote(i, o) ==
  /\ status[i] = "running"
  /\ job[i].pc = "quote"
  /\ IF QuoteOk(o)
       THEN /\ cache' = MapSet(cache, KeyOf(job[i].args), NewEntry(job[i].args, i))
            /\ job' = [job EXCEPT ![i].pc = "swap", ![i].quote = i, ![i].fetched = o]
            /\ api' = Fetch(i)
            /\ UNCHANGED qvars
       ELSE /\ QSettle(i, FALSE)
            /\ job' = [job EXCEPT ![i].pc = "done", ![i].fetched = o]
            /\ UNCHANGED <<cache, api>>
  /\ UNCHANGED <<hits, misses, calls>>
  /\ UNCHANGED <<now, cvars, pvars>>

\* the response of /swap arrives, lines 645-666 (729-749): the item returns
\* the signed transaction or throws
JSwap(i, o) ==
  /\ status[i] = "running"
  /\ job[i].pc = "swap"
  /\ QSettle(i, o = "tx")
  /\ job' = [job EXCEPT ![i].pc = "done"]
  /\ UNCHANGED <<api, kvars, cvars, pvars>>

JupiterInit ==
  /\ job = [i \in Items |-> NoJob]
  /\ api = NoApi

JNext ==
  \/ \E c \in JupiterCalls : JAdd(c[1], c[2])
  \/ \E k \in Procs : JTimerFire(k)
  \/ \E k \in Procs : JWakeSlot(k)
  \/ \E k \in Procs : JWakePace(k)
  \/ \E i \in Items, o \in QuoteOutcomes : JQuote(i, o)
  \/ \E i \in Items, o \in SwapOutcomes : JSwap(i, o)
  \/ QTick

----------------------------------------------------------------------------
(* The probe of the rate limit of the Jupiter API (part_000:7-115): a loop   *)
(* that requests a quote, sleeps and requests again                           *)

(* Bounds of the model *)
MaxRequests == 8   \* requests that the probe sends in one behaviour

(* Program constants *)
SafeDelay == 200               \* DELAY_BETWEEN_REQUESTS: lines 7, 58
FirstCooldown == 60000         \* line 77
MaxCooldown == 600000          \* 10 * 60 * 1000: line 85

\* response.ok, response.status === 429, another status, or fetch() throws
ProbeResponses == {"ok", "429", "otherStatus", "throw"}

\* line 85: cooldownMs = Math.min(cooldownMs * 2, 10 * 60 * 1000)
NextCooldownUncapped(ms) == ms * 2
NextCooldown(ms) == Min(ms * 2, MaxCooldown)

\* await sleep(ms): lines 93, 109
ProbeSleep(p, ms) == [p EXCEPT !.pc = "sleep", !.wake = now + ms, !.wait = ms]

\* the successful response: lines 48-64, then the sleep of line 109
ProbeSuccess(p) ==
  LET p1 == [p EXCEPT !.successfulRequests = @ + 1, !.run = 0]
      p2 == IF p1.isRateLimited
              THEN [p1 EXCEPT !.isRateLimited = FALSE,
                              !.cooldownMs = 0,
                              !.DELAY_BETWEEN_REQUESTS = SafeDelay]
              ELSE p1
  IN ProbeSleep(p2, p2.DELAY_BETWEEN_REQUESTS)

\* the rate-limited response: lines 69-95
ProbeRateLimited(p) ==
  LET p1 == [p EXCEPT !.rateLimitHits = @ + 1, !.failedRequests = @ + 1,
                      !.run = @ + 1]
      p2 == IF ~p1.isRateLimited
              THEN [p1 EXCEPT !.isRateLimited = TRUE,
                              !.firstRateLimitTime = now,
                              !.cooldownMs = FirstCooldown]
              ELSE [p1 EXCEPT !.cooldownMs = NextCooldown(@)]
  IN ProbeSleep(p2, p2.cooldownMs)

\* another response or an error of fetch(): lines 100-109
ProbeFailed(p) ==
  LET p1 == [p EXCEPT !.failedRequests = @ + 1]
  IN ProbeSleep(p1, p1.DELAY_BETWEEN_REQUESTS)

\* one round of the loop, from the request to the sleep: lines 29-109
ProbeRequest(o) ==
  /\ probe.pc = "fetch"
  /\ probe.totalRequests < MaxRequests
  /\ LET p == [probe EXCEPT !.totalRequests = @ + 1, !.last = o]
     IN probe' = IF o = "ok" THEN ProbeSuccess(p)
                 ELSE IF o = "429" THEN ProbeRateLimited(p)
                 ELSE ProbeFailed(p)
  /\ UNCHANGED <<now, qvars, cvars, kvars, jvars>>

\* the sleep ends: time has passed until the timer fires
ProbeWake ==
  /\ probe.pc = "sleep"
  /\ now' = probe.wake
  /\ probe' = [probe EXCEPT !.pc = "fetch", !.wake = 0]
  /\ UNCHANGED <<qvars, cvars, kvars, jvars>>

ProbeInit ==
  probe = [pc |-> "fetch", wake |-> 0, DELAY_BETWEEN_REQUESTS |-> SafeDelay,
           totalRequests |-> 0, successfulRequests |-> 0, failedRequests |-> 0,
           rateLimitHits |-> 0, isRateLimited |-> FALSE, firstRateLimitTime |-> 0,
           cooldownMs |-> 0, last |-> "none", wait |-> 0, run |-> 0]

PNext ==
  \/ \E o \in ProbeResponses : ProbeRequest(o)
  \/ ProbeWake

----------------------------------------------------------------------------
(* Cooldown coordinator (usage-tracker.mjs:2574-2885) *)

(* Bounds of the model *)
NumSessions == 2       \* sessions trading at once
WalletsPerSession == 1 \* session.selectedWalletCount of each session
MaxFaults == 4         \* answers other than the expected one, in one behaviour
MaxStopSessions == 1   \* sessions, the first ones, that their user may stop
BUY_INTERVAL == 4000   \* the configured pause between two trades of a wallet
CTickMs == 10000       \* granularity of the clock in the coordinator model

(* Program constants *)
MAX_CONSECUTIVE_COOLDOWNS == 3
RATE_LIMIT_THRESHOLD == 2
FAILURE_WINDOW == 10000
COOLDOWN_DURATION == 60000
ADAPTIVE_CHECK_INTERVAL == 60000
AdaptiveStreak == 10
GraceMs == 120000
maxAttempts == 3

\* The coordinator reads the clock only to subtract a recorded time from it and
\* to compare the difference with a window, so a behaviour is the same when now
\* and every recorded time are moved together. In the coordinator's model the
\* clock advances by moving every recorded time and deadline back by one tick
\* (CTick); a recorded time older than the window it is compared with is kept as
\* 0, the value the code itself uses for "never".
CEpoch == COOLDOWN_DURATION + CTickMs

Sessions == 1..NumSessions
\* tradingWallets of a session, in order, and its worker loops
WalletSeq(s) == [i \in 1..WalletsPerSession |-> i - 1]
Workers == Sessions \X (0..(WalletsPerSession - 1))

\* the coordinator's state, as the record its functions map
Cur ==
  [COOLDOWN_MODE |-> COOLDOWN_MODE, cooldownStartTime |-> cooldownStartTime,
   rateLimitFailureCount |-> rateLimitFailureCount, lastFailureTime |-> lastFailureTime,
   consecutiveCooldowns |-> consecutiveCooldowns,
   consecutiveSuccesses |-> consecutiveSuccesses,
   lastAdaptiveCheck |-> lastAdaptiveCheck, requestsPerSecond |-> requestsPerSecond,
   minDelay |-> minDelay, botRunning |-> botRunning, holds |-> holds,
   prevFailure |-> prevFailure, lastAdjust |-> lastAdjust, streak |-> streak,
   adjusted |-> FALSE, erased |-> erased]

Commit(c) ==
  /\ COOLDOWN_MODE' = c.COOLDOWN_MODE
  /\ cooldownStartTime' = c.cooldownStartTime
  /\ rateLimitFailureCount' = c.rateLimitFailureCount
  /\ lastFailureTime' = c.lastFailureTime
  /\ consecutiveCooldowns' = c.consecutiveCooldowns
  /\ consecutiveSuccesses' = c.consecutiveSuccesses
  /\ lastAdaptiveCheck' = c.lastAdaptiveCheck
  /\ requestsPerSecond' = c.requestsPerSecond
  /\ minDelay' = c.minDelay
  /\ botRunning' = c.botRunning
  /\ holds' = c.holds
  /\ prevFailure' = IF c.COOLDOWN_MODE THEN 0 ELSE c.prevFailure
  /\ lastAdjust' = c.lastAdjust
  /\ streak' = c.streak
  /\ erased' = IF c.COOLDOWN_MODE THEN 0 ELSE c.erased

\* jupiterQueue.setRequestsPerSecond(rate), on the record
setRequestsPerSecond(c, rate) ==
  [c EXCEPT !.requestsPerSecond = ClampRate(rate),
            !.minDelay = MinDelayOf(ClampRate(rate))]

\* triggerCooldown(): lines 2660-2697
StopAll(c) == [c EXCEPT !.botRunning = [s \in Sessions |-> FALSE]]
triggerCooldownKeepingCount(c) ==
  LET c1 == [c EXCEPT !.COOLDOWN_MODE = TRUE,
                      !.cooldownStartTime = now,
                      !.consecutiveCooldowns = @ + 1,
                      !.holds = @ + 1]
  IN IF c1.consecutiveCooldowns >= MAX_CONSECUTIVE_COOLDOWNS THEN StopAll(c1) ELSE c1
triggerCooldown(c) ==
  LET c1 == [c EXCEPT !.COOLDOWN_MODE = TRUE,
                      !.cooldownStartTime = now,
                      !.rateLimitFailureCount = 0,
                      !.consecutiveCooldowns = @ + 1,
                      !.holds = @ + 1]
  IN IF c1.consecutiveCooldowns >= MAX_CONSECUTIVE_COOLDOWNS THEN StopAll(c1) ELSE c1

\* recordRateLimitFailure(): lines 2611-2627
WindowExpired(c) == now - c.lastFailureTime > FAILURE_WINDOW
recordRateLimitFailureInAnyMode(c) ==
  LET n == IF WindowExpired(c) THEN 0 ELSE c.rateLimitFailureCount
      c1 == [c EXCEPT !.rateLimitFailureCount = n + 1, !.lastFailureTime = now]
  IN IF c1.rateLimitFailureCount >= RATE_LIMIT_THRESHOLD
       THEN triggerCooldown(c1)
       ELSE c1
recordRateLimitFailure(c) ==
  LET n == IF WindowExpired(c) THEN 0 ELSE c.rateLimitFailureCount
      c1 == [c EXCEPT !.rateLimitFailureCount = n + 1, !.lastFailureTime = now]
  IN IF c1.rateLimitFailureCount >= RATE_LIMIT_THRESHOLD /\ ~c1.COOLDOWN_MODE
       THEN triggerCooldown(c1)
       ELSE c1

\* an adaptive call of setRequestsPerSecond(rate): lines 2638, 2653
Adapt(c, rate) ==
  [setRequestsPerSecond(c, rate)
     EXCEPT !.lastAdjust = now, !.streak = 0, !.adjusted = TRUE]

\* recordSuccess(): lines 2629-2645 (recentFailureRate is never assigned: it is 0)
recordSuccessAtEveryStreak(c) ==
  LET c1 == [c EXCEPT !.consecutiveSuccesses = Min(@ + 1, AdaptiveStreak),
                      !.streak = Min(@ + 1, AdaptiveStreak)]
  IN IF c1.consecutiveSuccesses >= AdaptiveStreak
       THEN [Adapt(c1, Min(Rps(3) + 5, Rps(5)))
               EXCEPT !.consecutiveSuccesses = 0, !.lastAdaptiveCheck = now]
       ELSE c1
recordSuccess(c) ==
  LET c1 == [c EXCEPT !.consecutiveSuccesses = Min(@ + 1, AdaptiveStreak),
                      !.streak = Min(@ + 1, AdaptiveStreak)]
  IN IF c1.consecutiveSuccesses >= AdaptiveStreak
        /\ now - c1.lastAdaptiveCheck > ADAPTIVE_CHECK_INTERVAL
       THEN [Adapt(c1, Min(Rps(3) + 5, Rps(5)))
               EXCEPT !.consecutiveSuccesses = 0, !.lastAdaptiveCheck = now]
       ELSE c1

\* recordFailure(): lines 2647-2658
recordFailure(c) ==
  LET c1 == [c EXCEPT !.consecutiveSuccesses = 0, !.streak = 0]
  IN IF now - c1.lastAdaptiveCheck > ADAPTIVE_CHECK_INTERVAL
       THEN [Adapt(c1, Max(Rps(3) - 5, Rps(1)))
               EXCEPT !.lastAdaptiveCheck = now]
       ELSE c1

\* resetCooldownCounters(): lines 2882-2885
resetCooldownCountersNot(c) == c
resetCooldownCounters(c) ==
  [c EXCEPT !.rateLimitFailureCount = 0, !.lastFailureTime = 0]

\* testRateLimitRecovery(): lines 2847-2880, on the outcome of its fetch
CanaryOutcomes == {"ok", "429", "otherStatus", "throwRateLimit", "throwOther"}
testRateLimitRecovery(o) == o \notin {"429", "throwRateLimit"}

\* checkAndExitCooldown(), line 2777: the hold starts again
ExtendCooldown(c) == [c EXCEPT !.cooldownStartTime = now]

\* checkAndExitCooldown(), lines 2799-2802: the resumption test failed
ReenterCountingCooldown(c) ==
  [c EXCEPT !.cooldownStartTime = now, !.consecutiveCooldowns = @ + 1, !.holds = @ + 1]
ReenterCooldown(c) == [c EXCEPT !.cooldownStartTime = now, !.holds = @ + 1]

\* checkAndExitCooldown(), lines 2817-2822: the mode and the counters
ResumedKeepingCooldowns(c) ==
  [c EXCEPT !.COOLDOWN_MODE = FALSE, !.rateLimitFailureCount = 0, !.holds = 0]
Resumed(c) ==
  [c EXCEPT !.COOLDOWN_MODE = FALSE, !.rateLimitFailureCount = 0,
            !.consecutiveCooldowns = 0, !.holds = 0]

\* checkAndExitCooldown(), lines 2807-2822: leave Cooldown at half rate
ExitCooldownAtFullRate(c) == Resumed(setRequestsPerSecond(c, Rps(4)))
ExitCooldown(c) == Resumed(setRequestsPerSecond(c, Rps(2)))

----------------------------------------------------------------------------
(* Trading workers (usage-tracker.mjs:4774-4860), one per wallet of a session *)

NoItem == <<0, 0>>
At(pc, ctx) == [pc |-> pc, wake |-> 0, att |-> 0, ctx |-> ctx, idx |-> 0, item |-> NoItem]
\* sleep(ms): the timer is looked at when the clock moves, so its deadline is
\* kept as the first instant of the clock that is not before it
WakeAt(ms) == now + ((ms + CTickMs - 1) \div CTickMs) * CTickMs
Sleeping(pc, ms, ctx) == [At(pc, ctx) EXCEPT !.wake = WakeAt(ms)]
Due(wk) == now >= wk.wake

\* the wallets still owed a liquidation sell after a step of worker sw: the
\* sell of wk.item is submitted (part_004:671), or the session of sw starts a
\* new inventory (line 2895) or leaves Cooldown (line 2818)
Owed(sw, wk, ev) ==
  IF ev = "sellHigh" THEN owed \ {wk.item}
  ELSE IF ev \in {"canaryPass", "exit", "exitUnsold"}
    THEN {it \in owed : it[1] # sw[1]}
    ELSE owed

\* a step that meets no dust error and counts no failed transaction
NoTally ==
  [dust |-> FALSE, failedTxs |-> 0, failedSells |-> 0, tries |-> 0, adaptive |-> FALSE,
   success |-> FALSE, limited |-> FALSE]

\* event, tally: what the last step did, forgotten when the clock moves
StepT(sw, c, wk, ev, t) ==
  /\ Commit(c)
  /\ worker' = [worker EXCEPT ![sw] = wk]
  /\ event' = ev
  /\ owed' = Owed(sw, wk, ev)
  /\ tally' = [t EXCEPT !.adaptive = c.adjusted]
  /\ UNCHANGED <<now, qonly, kvars, jvars, pvars>>
Step(sw, c, wk, ev) == StepT(sw, c, wk, ev, NoTally)

\* jupiterQueue.add of a buy (part_004:587) or of a sell (part_004:670)
SubmitBuy(ctx) == IF ctx = "test" THEN "buyBypass" ELSE "buy"

\* the sleep of the loop after a failed buy or sell: lines 4818-4825, 4836-4843
RetrySleep(c) == IF c.COOLDOWN_MODE THEN 5000 ELSE 10000

\* what follows the return of performBuy: in the loop (4813-4828) or in
\* testResumptionWithOneWallet (2721-2732, then 2799-2802 and 4797)
BuyReturn(c, sw, ok) ==
  IF worker[sw].ctx = "loop"
    THEN [c |-> c,
          wk |-> IF ~ok \/ ~c.botRunning[sw[1]]
                   THEN Sleeping("top", RetrySleep(c), "loop")
                   ELSE Sleeping("sell", 3000, "loop"),
          rs |-> restoreAt, ev |-> "none"]
    ELSE IF ok
      THEN [c |-> c, wk |-> Sleeping("sell", 8000, "test"), rs |-> restoreAt,
            ev |-> "none"]
      ELSE [c |-> ReenterCooldown(c), wk |-> Sleeping("top", 10000, "loop"),
            rs |-> restoreAt, ev |-> "resumeFail"]

\* what follows the return of performSell: in the loop (4831-4846) or in
\* testResumptionWithOneWallet (2735-2743, then 2805-2844 and 4793-4813)
SellReturn(c, sw, ok) ==
  IF worker[sw].ctx = "loop"
    THEN [c |-> c,
          wk |-> IF ~ok \/ ~c.botRunning[sw[1]]
                   THEN Sleeping("top", RetrySleep(c), "loop")
                   ELSE Sleeping("top", BUY_INTERVAL, "loop"),
          rs |-> restoreAt, ev |-> "none"]
    ELSE [c |-> ExitCooldown(c), wk |-> At("buyBalance", "loop"),
          rs |-> restoreAt \cup {now + GraceMs},
          ev |-> IF ok THEN "exit" ELSE "exitUnsold"]

\* Return of performBuy or performSell to its caller; kind: the call recorded
\* a rate-limit failure ("limited"), a failure of another kind ("failed"), or
\* no failure ("none")
Return(r, sw, kind, t) ==
  /\ StepT(sw, r.c, r.wk,
           IF kind = "limited" /\ r.c.COOLDOWN_MODE /\ ~COOLDOWN_MODE THEN "trigger"
           ELSE IF r.ev # "none" THEN r.ev
           ELSE IF kind = "limited" THEN "rateLimit"
           ELSE IF kind = "failed" THEN "otherError"
           ELSE "none",
           t)
  /\ restoreAt' = r.rs

\* if (!currentSession?.botRunning) break: lines 4779-4783
SessionStoppedNever(s) == FALSE
SessionStopped(s) == ~botRunning[s]

\* top of the loop: lines 4779-4813, with checkAndExitCooldown up to its first await
LoopTop(sw) ==
  /\ worker[sw].pc = "top" /\ Due(worker[sw])
  /\ LET wk == IF SessionStopped(sw[1]) THEN At("stopped", "loop")
               ELSE IF ~COOLDOWN_MODE THEN At("buyBalance", "loop")
               ELSE IF sw[2] = 0 /\ ~isSellQueueProcessing
                       /\ now - cooldownStartTime >= COOLDOWN_DURATION
                 THEN Sleeping("ceCanary", 5000, "loop")
                 ELSE Sleeping("top", 10000, "loop")
     IN Step(sw, Cur, wk, "none")
  /\ UNCHANGED <<sellQueue, isSellQueueProcessing, restoreAt, tokens>>

\* checkAndExitCooldown, lines 2773-2784 and buildSellQueue line 2895
ExtendCountingCooldown(c) ==
  [c EXCEPT !.cooldownStartTime = now, !.consecutiveCooldowns = @ + 1]
CanaryFailed(c) == ExtendCooldown(c)
CanaryResult(sw, o) ==
  /\ worker[sw].pc = "ceCanary" /\ Due(worker[sw])
  /\ IF testRateLimitRecovery(o)
       THEN /\ Step(sw, Cur, At("ceBuild", "loop"), "canaryPass")
            /\ sellQueue' = <<>>
       ELSE /\ Step(sw, CanaryFailed(Cur), Sleeping("top", 10000, "loop"), "canaryFail")
            /\ UNCHANGED sellQueue
  /\ UNCHANGED <<isSellQueueProcessing, restoreAt, tokens>>

\* buildSellQueue, one wallet: lines 2897-2931
BuildStep(sw, o) ==
  LET wk == worker[sw]
      ws == WalletSeq(sw[1])
  IN /\ wk.pc = "ceBuild" /\ Due(wk) /\ wk.idx < Len(ws)
     /\ LET it == <<sw[1], ws[wk.idx + 1]>>
            nx == IF o = "read" THEN Sleeping("ceBuild", 500, "loop")
                  ELSE At("ceBuild", "loop")
            found == o = "read" /\ tokens[it]
        IN /\ Commit(Cur)
           /\ worker' = [worker EXCEPT ![sw] = [nx EXCEPT !.idx = wk.idx + 1]]
           /\ event' = "none"
           /\ sellQueue' = IF found THEN Append(sellQueue, it) ELSE sellQueue
           /\ owed' = IF found THEN owed \cup {it} ELSE owed
           /\ tally' = NoTally
           /\ UNCHANGED <<now, qonly, kvars, jvars, pvars>>
     /\ UNCHANGED <<isSellQueueProcessing, restoreAt, tokens>>

\* processSellQueue, the iteration that starts at index i: lines 2961-2971, 3029-3030;
\* past the last one, the sleeps before the test buy: lines 2793, 2719
DrainWk(i) ==
  IF i < Len(sellQueue)
    THEN [At("ceSellTx", "loop") EXCEPT !.idx = i, !.item = sellQueue[i + 1]]
    ELSE Sleeping("buyBalance", 35000, "test")
DrainFromKeepingFlag(sw, i, flag, t) ==
  /\ StepT(sw, Cur, DrainWk(i), IF i < Len(sellQueue) THEN "sellHigh" ELSE "drained", t)
  /\ IF i < Len(sellQueue)
       THEN /\ isSellQueueProcessing' = flag
            /\ UNCHANGED sellQueue
       ELSE /\ sellQueue' = <<>>
            /\ isSellQueueProcessing' = flag
DrainFrom(sw, i, flag, t) ==
  /\ StepT(sw, Cur, DrainWk(i), IF i < Len(sellQueue) THEN "sellHigh" ELSE "drained", t)
  /\ IF i < Len(sellQueue)
       THEN /\ isSellQueueProcessing' = flag
            /\ UNCHANGED sellQueue
       ELSE /\ sellQueue' = <<>>
            /\ isSellQueueProcessing' = FALSE

\* checkAndExitCooldown after buildSellQueue: lines 2787-2793, 2955
BuildEnd(sw) ==
  LET wk == worker[sw]
  IN /\ wk.pc = "ceBuild" /\ Due(wk) /\ wk.idx >= Len(WalletSeq(sw[1]))
     /\ IF Len(sellQueue) > 0
          THEN DrainFrom(sw, 0, TRUE, NoTally)
          ELSE /\ Step(sw, Cur, Sleeping("buyBalance", 35000, "test"), "none")
               /\ UNCHANGED <<sellQueue, isSellQueueProcessing>>
     /\ UNCHANGED <<restoreAt, tokens>>

\* processSellQueue, the answers to getSellTxWithJupiter and, when it gave a
\* transaction, to execute: lines 2971-3014
DrainOutcomes == {"sold", "unsold", "null", "dust", "error"}
\* the dust error is skipped with no count: lines 3002-3007
DrainSkips(o) == o = "dust"
DrainTally(o) ==
  [dust |-> o = "dust", failedTxs |-> 0,
   failedSells |-> IF o \in {"unsold", "null", "error"} THEN 1 ELSE 0, tries |-> 0,
   adaptive |-> FALSE, success |-> FALSE, limited |-> FALSE]
DrainResult(sw, o) ==
  LET wk == worker[sw]
  IN /\ wk.pc = "ceSellTx"
     /\ IF DrainSkips(o)
          THEN DrainFrom(sw, wk.idx + 1, isSellQueueProcessing, DrainTally(o))
          ELSE /\ StepT(sw, Cur,
                        [wk EXCEPT !.pc = "ceSellNext",
                                   !.wake = WakeAt(IF o = "null" THEN 3000 ELSE 5000)],
                        "none", DrainTally(o))
               /\ UNCHANGED <<sellQueue, isSellQueueProcessing>>
     /\ tokens' = IF o = "sold" THEN [tokens EXCEPT ![wk.item] = FALSE] ELSE tokens
     /\ UNCHANGED restoreAt

\* processSellQueue, the next iteration after the sleep: lines 2961, 3014
DrainNext(sw) ==
  LET wk == worker[sw]
  IN /\ wk.pc = "ceSellNext" /\ Due(wk)
     /\ DrainFrom(sw, wk.idx + 1, isSellQueueProcessing, NoTally)
     /\ UNCHANGED <<restoreAt, tokens>>

\* performBuy after the balance is read: lines 4984-5045
BuyBalance(sw, enough) ==
  LET wk == worker[sw]
  IN /\ wk.pc = "buyBalance" /\ Due(wk)
     /\ IF enough
          THEN /\ Step(sw, Cur, At("buyTx", wk.ctx), SubmitBuy(wk.ctx))
               /\ UNCHANGED restoreAt
          ELSE Return(BuyReturn(Cur, sw, FALSE), sw, "none", NoTally)
     /\ UNCHANGED <<sellQueue, isSellQueueProcessing, tokens>>

\* the outcome of a trade on the coordinator: lines 5100-5101, 5146, 5150-5160
RateLimited(o) == o \in {"rateLimit", "throwRateLimit"}
Recorded(o) ==
  IF RateLimited(o) THEN "limited"
  ELSE IF o \in {"sig", "dust"} THEN "none"
  ELSE "failed"
\* the handlers that record the rate-limit error o. The handler of the attempts
\* (lines 5066-5070, 5265-5275) records the error of getBuyTxWithJupiter or
\* getSellTxWithJupiter and returns false, so the error does not reach the
\* handler of the function (lines 5155-5158, 5352-5355), which records what
\* is thrown after the attempts
HandlersOfRethrown(o) ==
  IF o = "rateLimit" THEN {"attempt", "function"}
  ELSE IF o = "throwRateLimit" THEN {"function"}
  ELSE {}
Handlers(o) ==
  IF o = "rateLimit" THEN {"attempt"}
  ELSE IF o = "throwRateLimit" THEN {"function"}
  ELSE {}
\* history: the success makes the failure before it forgotten
Forgetting(c) ==
  [c EXCEPT !.prevFailure = 0, !.erased = IF c.prevFailure # 0 THEN c.prevFailure ELSE @]
AfterExecCountingAll(c, o) ==
  IF o = "sig" THEN Forgetting(recordSuccess(resetCooldownCounters(c)))
  ELSE [recordFailure(recordRateLimitFailure(c))
          EXCEPT !.prevFailure = IF c.COOLDOWN_MODE THEN 0 ELSE now]
AfterExec(c, o) ==
  IF o = "sig" THEN Forgetting(recordSuccess(resetCooldownCounters(c)))
  ELSE IF RateLimited(o)
    THEN LET c1 == recordFailure(recordRateLimitFailure(c))
             c2 == IF Cardinality(Handlers(o)) > 1
                     THEN recordFailure(recordRateLimitFailure(c1))
                     ELSE c1
         IN [c2 EXCEPT !.prevFailure = IF c.COOLDOWN_MODE THEN 0 ELSE now]
    ELSE recordFailure(c)

\* performSell, lines 5345-5358: the dust error is recorded nowhere
AfterSellCountingDust(c, o) == AfterExec(c, o)
AfterSell(c, o) == IF o = "dust" THEN c ELSE AfterExec(c, o)

\* session.tradingStats.failedTxs++: lines 5144, 5163 and 5333, 5361-5363; not
\* on the rate-limit exit of lines 5066-5070 and 5265-5275
TradeTally(o, att) ==
  [dust |-> o = "dust",
   failedTxs |-> IF o \in {"none", "error", "throwOther", "throwRateLimit"} THEN 1 ELSE 0,
   failedSells |-> 0, tries |-> att + 1, adaptive |-> FALSE, success |-> o = "sig",
   limited |-> RateLimited(o)]
\* an attempt that is tried again counts nothing: lines 5073-5075, 5278-5280
RetryTally(o, att) == [NoTally EXCEPT !.dust = o = "dust", !.tries = att + 1]

\* the creation of the transaction failed with an error that is no rate limit
\* and attempts < maxAttempts: lines 5061, 5073 and 5260, 5278
RetriesForever(o, att) == o \in {"error", "dust"}
Retries(o, att) == o \in {"error", "dust"} /\ att + 1 < maxAttempts

\* performBuy, the answers to getBuyTxWithJupiter and, when it gave a
\* transaction, to execute: lines 5045-5165
BuyOutcomes == {"sig", "none", "throwRateLimit", "throwOther", "rateLimit", "error"}
BuyResult(sw, o) ==
  LET wk == worker[sw]
  IN /\ wk.pc = "buyTx"
     /\ IF Retries(o, wk.att)
          THEN /\ StepT(sw, Cur,
                        [Sleeping("buyRetry", 2000, wk.ctx) EXCEPT !.att = wk.att + 1],
                        "none", RetryTally(o, wk.att))
               /\ UNCHANGED restoreAt
          ELSE Return(BuyReturn(AfterExec(Cur, o), sw, o = "sig"), sw, Recorded(o),
                      TradeTally(o, wk.att))
     /\ tokens' = IF o = "sig" THEN [tokens EXCEPT ![sw] = TRUE] ELSE tokens
     /\ UNCHANGED <<sellQueue, isSellQueueProcessing>>

\* performBuy, the next attempt after the sleep: lines 5042-5045, 5075
BuyRetry(sw) ==
  LET wk == worker[sw]
  IN /\ wk.pc = "buyRetry" /\ Due(wk)
     /\ Step(sw, Cur, [wk EXCEPT !.pc = "buyTx", !.wake = 0], SubmitBuy(wk.ctx))
     /\ UNCHANGED <<sellQueue, isSellQueueProcessing, restoreAt, tokens>>

\* performSell up to its first request: lines 5177-5244. The wallet cannot pay
\* ("refused"), or its token balance is read: as it is ("read"), or as nothing
\* because the reads fail or the purchase does not show yet ("empty")
SellStartOutcomes == {"read", "empty", "refused"}
\* performSell has no test of COOLDOWN_MODE at its entry (line 5178), as
\* performBuy has at line 4981
SellSkippedInCooldown == COOLDOWN_MODE
SellSkipped == FALSE
SellStart(sw, o) ==
  LET wk == worker[sw]
      found == o = "read" /\ tokens[sw]
  IN /\ wk.pc = "sell" /\ Due(wk)
     /\ IF o = "refused" \/ SellSkipped
          THEN Return(SellReturn(Cur, sw, FALSE), sw, "none", NoTally)
          ELSE /\ Step(sw, Cur,
                       IF found THEN At("sellTx", wk.ctx)
                       ELSE Sleeping("sellPoll", 20000, wk.ctx),
                       IF found THEN "sell" ELSE "none")
               /\ UNCHANGED restoreAt
     /\ UNCHANGED <<sellQueue, isSellQueueProcessing, tokens>>

\* performSell finds no tokens after ten polls: lines 5211-5233
SellPollEnd(sw) ==
  /\ worker[sw].pc = "sellPoll" /\ Due(worker[sw])
  /\ Return(SellReturn(Cur, sw, FALSE), sw, "none", NoTally)
  /\ UNCHANGED <<sellQueue, isSellQueueProcessing, tokens>>

\* performSell, the answers to getSellTxWithJupiter and, when it gave a
\* transaction, to execute: lines 5240-5365
SellOutcomes == BuyOutcomes \cup {"dust"}
SellResult(sw, o) ==
  LET wk == worker[sw]
  IN /\ wk.pc = "sellTx"
     /\ IF Retries(o, wk.att)
          THEN /\ StepT(sw, Cur,
                        [Sleeping("sellRetry", 2000, wk.ctx) EXCEPT !.att = wk.att + 1],
                        "none", RetryTally(o, wk.att))
               /\ UNCHANGED restoreAt
          ELSE Return(SellReturn(AfterSell(Cur, o), sw, o = "sig"), sw, Recorded(o),
                      TradeTally(o, wk.att))
     /\ tokens' = IF o = "sig" THEN [tokens EXCEPT ![sw] = FALSE] ELSE tokens
     /\ UNCHANGED <<sellQueue, isSellQueueProcessing>>

\* performSell, the next attempt after the sleep: lines 5240-5243, 5280
SellRetry(sw) ==
  LET wk == worker[sw]
  IN /\ wk.pc = "sellRetry" /\ Due(wk)
     /\ Step(sw, Cur, [wk EXCEPT !.pc = "sellTx", !.wake = 0], "sell")
     /\ UNCHANGED <<sellQueue, isSellQueueProcessing, restoreAt, tokens>>

\* the timer set on leaving Cooldown: lines 2812-2815
RestoreFire(t) ==
  /\ t \in restoreAt /\ now >= t
  /\ Commit(setRequestsPerSecond(Cur, Rps(4)))
  /\ restoreAt' = restoreAt \ {t}
  /\ event' = "restore"
  /\ tally' = NoTally
  /\ UNCHANGED <<now, qonly, kvars, jvars, pvars, worker, sellQueue, isSellQueueProcessing,
                 tokens, owed>>

\* handleStopVolume(): lines 4565-4581, the user of session s stops the bot
UserStop(s) ==
  /\ s \in Sessions
  /\ botRunning[s]
  /\ Commit([Cur EXCEPT !.botRunning[s] = FALSE])
  /\ event' = "stop"
  /\ tally' = NoTally
  /\ UNCHANGED <<now, qonly, kvars, jvars, pvars, worker, sellQueue,
                 isSellQueueProcessing, restoreAt, tokens, owed>>

\* the clock: every answer that is awaited arrives and every timer that has run
\* out fires before it moves; a timer that has run out keeps no deadline
Back(t, window) ==
  IF t - CTickMs <= 0 \/ now - (t - CTickMs) > window THEN 0 ELSE t - CTickMs
Ring(wk) == [wk EXCEPT !.wake = IF @ - CTickMs <= now THEN 0 ELSE @ - CTickMs]
Busy(sw) == worker[sw].pc # "stopped" /\ Due(worker[sw])
CTick ==
  /\ \A sw \in Workers : ~Busy(sw)
  /\ \A t \in restoreAt : t > now
  /\ worker' = [sw \in Workers |-> Ring(worker[sw])]
  /\ restoreAt' = {t - CTickMs : t \in restoreAt}
  /\ cooldownStartTime' = Back(cooldownStartTime, COOLDOWN_DURATION - 1)
  /\ lastFailureTime' = Back(lastFailureTime, FAILURE_WINDOW)
  /\ lastAdaptiveCheck' = Back(lastAdaptiveCheck, ADAPTIVE_CHECK_INTERVAL)
  /\ prevFailure' = Back(prevFailure, FAILURE_WINDOW)
  /\ lastAdjust' = Back(lastAdjust, ADAPTIVE_CHECK_INTERVAL)
  /\ erased' = Back(erased, FAILURE_WINDOW)
  /\ event' = "none"
  /\ tally' = NoTally
  /\ UNCHANGED <<now, qvars, kvars, jvars, pvars, COOLDOWN_MODE, rateLimitFailureCount,
                 consecutiveCooldowns, consecutiveSuccesses, sellQueue,
                 isSellQueueProcessing, botRunning, tokens, envFaults, holds, owed,
                 streak>>

\* an answer other than the expected one, or a command of the user, is drawn
\* while the bound allows it
Fault(unexpected) ==
  IF unexpected THEN envFaults < MaxFaults /\ envFaults' = envFaults + 1
  ELSE UNCHANGED envFaults

CoordInit ==
  /\ COOLDOWN_MODE = FALSE
  /\ cooldownStartTime = 0
  /\ rateLimitFailureCount = 0
  /\ lastFailureTime = 0
  /\ consecutiveCooldowns = 0
  /\ consecutiveSuccesses = 0
  /\ lastAdaptiveCheck = now
  /\ sellQueue = <<>>
  /\ isSellQueueProcessing = FALSE
  /\ botRunning = [s \in Sessions |-> TRUE]
  /\ restoreAt = {}
  /\ worker = [sw \in Workers |-> At("top", "loop")]
  /\ tokens = [sw \in Workers |-> FALSE]
  /\ event = "none"
  /\ prevFailure = 0
  /\ envFaults = 0
  /\ holds = 0
  /\ owed = {}
  /\ lastAdjust = 0
  /\ streak = 0
  /\ tally = NoTally
  /\ erased = 0

Init == now = StartTime /\ QueueInit /\ CoordInit /\ CacheInit /\ JupiterInit /\ ProbeInit

CInit == now = CEpoch /\ QueueInit /\ CoordInit /\ CacheInit /\ JupiterInit /\ ProbeInit

CNext ==
  \/ \E sw \in Workers : Fault(FALSE) /\ LoopTop(sw)
  \/ \E sw \in Workers, o \in CanaryOutcomes :
        Fault(~testRateLimitRecovery(o)) /\ CanaryResult(sw, o)
  \/ \E sw \in Workers, o \in {"read", "error"} : Fault(o # "read") /\ BuildStep(sw, o)
  \/ \E sw \in Workers : Fault(FALSE) /\ BuildEnd(sw)
  \/ \E sw \in Workers, o \in DrainOutcomes : Fault(o # "sold") /\ DrainResult(sw, o)
  \/ \E sw \in Workers : Fault(FALSE) /\ DrainNext(sw)
  \/ \E sw \in Workers, enough \in BOOLEAN : Fault(~enough) /\ BuyBalance(sw, enough)
  \/ \E sw \in Workers, o \in BuyOutcomes : Fault(o # "sig") /\ BuyResult(sw, o)
  \/ \E sw \in Workers : Fault(FALSE) /\ BuyRetry(sw)
  \/ \E sw \in Workers, o \in SellStartOutcomes : Fault(o # "read") /\ SellStart(sw, o)
  \/ \E sw \in Workers : Fault(FALSE) /\ SellPollEnd(sw)
  \/ \E sw \in Workers, o \in SellOutcomes : Fault(o # "sig") /\ SellResult(sw, o)
  \/ \E sw \in Workers : Fault(FALSE) /\ SellRetry(sw)
  \/ \E t \in restoreAt : Fault(FALSE) /\ RestoreFire(t)
  \/ \E s \in 1..MaxStopSessions : Fault(TRUE) /\ UserStop(s)
  \/ CTick

CoordSpec == CInit /\ [][CNext]_vars

\* The recovery.  The coordinator has just entered Cooldown for the first
\* time: the buy of session 2 met a rate limit, and one tick later the sell of
\* session 1 met one, while wallet 0 of session 1 holds the tokens of its buy.
\* It is the state that CoordSpec reaches by these two failures.
RecoveryInit ==
  /\ now = CEpoch /\ QueueInit /\ CacheInit /\ JupiterInit /\ ProbeInit
  /\ COOLDOWN_MODE = TRUE
  /\ cooldownStartTime = now
  /\ rateLimitFailureCount = 0
  /\ lastFailureTime = now
  /\ consecutiveCooldowns = 1
  /\ consecutiveSuccesses = 0
  /\ lastAdaptiveCheck = now - CTickMs
  /\ sellQueue = <<>>
  /\ isSellQueueProcessing = FALSE
  /\ botRunning = [s \in Sessions |-> TRUE]
  /\ restoreAt = {}
  /\ worker = [sw \in Workers |->
                 IF sw[1] = 1
                   THEN Sleeping("top", RetrySleep([COOLDOWN_MODE |-> TRUE]), "loop")
                 ELSE At("top", "loop")]
  /\ tokens = [sw \in Workers |-> sw[1] = 1]
  /\ event = "trigger"
  /\ prevFailure = 0
  /\ envFaults = RATE_LIMIT_THRESHOLD
  /\ holds = 1
  /\ owed = {}
  /\ lastAdjust = 0
  /\ streak = 0
  /\ tally = TradeTally("throwRateLimit", 0)
  /\ erased = 0

\* in the recovery the answers other than the expected one, and the stop of
\* the user, come while the mode is Cooldown: once the mode is Normal every
\* answer is the expected one
FaultInCooldown(unexpected) == (unexpected => COOLDOWN_MODE) /\ Fault(unexpected)

RecoveryNext ==
  \/ \E sw \in Workers : FaultInCooldown(FALSE) /\ LoopTop(sw)
  \/ \E sw \in Workers, o \in CanaryOutcomes :
        FaultInCooldown(~testRateLimitRecovery(o)) /\ CanaryResult(sw, o)
  \/ \E sw \in Workers, o \in {"read", "error"} :
        FaultInCooldown(o # "read") /\ BuildStep(sw, o)
  \/ \E sw \in Workers : FaultInCooldown(FALSE) /\ BuildEnd(sw)
  \/ \E sw \in Workers, o \in DrainOutcomes :
        FaultInCooldown(o # "sold") /\ DrainResult(sw, o)
  \/ \E sw \in Workers : FaultInCooldown(FALSE) /\ DrainNext(sw)
  \/ \E sw \in Workers, enough \in BOOLEAN :
        FaultInCooldown(~enough) /\ BuyBalance(sw, enough)
  \/ \E sw \in Workers, o \in BuyOutcomes :
        FaultInCooldown(o # "sig") /\ BuyResult(sw, o)
  \/ \E sw \in Workers : FaultInCooldown(FALSE) /\ BuyRetry(sw)
  \/ \E sw \in Workers, o \in SellStartOutcomes :
        FaultInCooldown(o # "read") /\ SellStart(sw, o)
  \/ \E sw \in Workers : FaultInCooldown(FALSE) /\ SellPollEnd(sw)
  \/ \E sw \in Workers, o \in SellOutcomes :
        FaultInCooldown(o # "sig") /\ SellResult(sw, o)
  \/ \E sw \in Workers : FaultInCooldown(FALSE) /\ SellRetry(sw)
  \/ \E t \in restoreAt : FaultInCooldown(FALSE) /\ RestoreFire(t)
  \/ \E s \in 1..MaxStopSessions : FaultInCooldown(TRUE) /\ UserStop(s)
  \/ CTick

\* The event loop runs every timer that is due and every answer that has
\* arrived, and the clock advances: some step is always taken.  The clock
\* moves only when no loop is due (CTick), so a loop that is due is not passed
\* over for ever.  The stops of the user need not happen.
RecoveryFairSpec == RecoveryInit /\ [][RecoveryNext]_vars /\ WF_vars(RecoveryNext)

CacheSpec == Init /\ [][KNext]_vars

JupiterSpec == Init /\ [][JNext]_vars

ProbeSpec == Init /\ [][PNext]_vars

QNext ==
  \/ \E p \in {"high", "normal"} : Add(p)
  \/ \E k \in Procs : TimerFire(k)
  \/ \E k \in Procs : WakeSlot(k)
  \/ \E k \in Procs : WakePace(k)
  \/ \E i \in Items, ok \in BOOLEAN : Settle(i, ok)
  \/ \E r \in RateInputs : SetRequestsPerSecond(r)
  \/ ClearQueue
  \/ QTick

QueueSpec == Init /\ [][QNext]_vars

\* The event loop runs every timer that is due and every settled promise's
\* callbacks, and the clock advances; dispatched work is assumed to settle.
\* Calls from outside (add, setRequestsPerSecond, clearQueue) need not happen.
QueueFairSpec ==
  /\ Init
  /\ [][QNext]_vars
  /\ WF_vars(QTick)
  /\ WF_vars(\E k \in Procs : TimerFire(k))
  /\ WF_vars(\E k \in Procs : WakeSlot(k))
  /\ WF_vars(\E k \in Procs : WakePace(k))
  /\ WF_vars(\E i \in Items, ok \in BOOLEAN : Settle(i, ok))

----------------------------------------------------------------------------
(* Claims about the RequestQueue *)

WasDispatched(i) == \E j \in 1..Len(dispatched) : dispatched[j] = i
Pos(i) == CHOOSE j \in 1..Len(dispatched) : dispatched[j] = i
Before(a, b) == WasDispatched(a) /\ (WasDispatched(b) => Pos(a) < Pos(b))
Settled(i) == status[i] \in {"resolved", "rejected"}

\* C1: any two consecutive dispatches are at least minDelay apart, minDelay
\* being 1000 ms / requestsPerSecond as in force when the second one is
\* dispatched (dispatches made before the clock's horizon).
C1_PacedAtCurrentRate ==
  (~lastGap.first /\ lastGap.at < QMaxTime)
    => lastGap.gap * lastGap.den >= lastGap.num

\* C2: activeRequests never exceeds maxConcurrent.
C2_ActiveWithinMax == activeRequests <= maxConcurrent

\* C2 witness: a second item waits in the queue for the slot held by a
\* dispatched item whose work has not settled.
C2_Witness ==
  /\ activeRequests = maxConcurrent
  /\ queue # <<>>
  /\ \E k \in Procs : proc[k].pc = "waitSlot"
  /\ \E i \in Items : Settled(i)

\* C3: a high item added while normal items are waiting in the queue is
\* dispatched before every one of those normal items.
C3_HighBeforeWaitingNormals ==
  \A h, n \in Items :
    (prio[h] = "high" /\ prio[n] = "normal" /\ n \in waitingAtAdd[h] /\ WasDispatched(n))
      => Before(h, n)

\* C3 witness: a high item was added behind a waiting normal item while the
\* drain loop was suspended, and both have been dispatched.
C3_Witness ==
  \E h, n \in Items :
    /\ prio[h] = "high" /\ prio[n] = "normal" /\ n \in waitingAtAdd[h]
    /\ WasDispatched(h) /\ WasDispatched(n)

\* C4: within one priority tier the queue is FIFO: of two items of the same
\* priority waiting in the queue at the same time, the one added first is
\* dispatched first.
C4_FifoWithinTier ==
  \A a, b \in Items :
    (prio[a] = prio[b] /\ a \in waitingAtAdd[b] /\ WasDispatched(b))
      => Before(a, b)

\* C5: no work is lost: every added item is dispatched at most once, and
\* (work settling, clearQueue() not called) every queued item eventually
\* settles.
C5_NoWorkLost ==
  /\ [](\A j, k \in 1..Len(dispatched) : j # k => dispatched[j] # dispatched[k])
  /\ \A i \in Items : (status[i] = "queued") ~> (Settled(i) \/ cleared)

\* C5 witness: the drain loop ended on an empty queue, a later add() started
\* it again, and every item added has settled.
C5_Witness ==
  /\ loopStarts >= 2
  /\ nextId = MaxItems
  /\ ~cleared
  /\ \A i \in Items : Settled(i)

----------------------------------------------------------------------------
(* Claims about the cooldown coordinator *)

\* a step in which performBuy or performSell recorded a rate-limit failure
\* while the coordinator was in Normal
FailureInNormal == ~COOLDOWN_MODE /\ event' \in {"rateLimit", "trigger"}

\* C6: in Normal, a rate-limit failure moves the coordinator to Cooldown when
\* it comes no more than FAILURE_WINDOW after the rate-limit failure before it
\* (no success in between), and does not when it is the first one or comes
\* more than FAILURE_WINDOW after the one before it.
C6_CooldownAtSecondFailure ==
  [][FailureInNormal =>
       (COOLDOWN_MODE' <=> (prevFailure # 0 /\ now - prevFailure <= FAILURE_WINDOW))]_vars

\* C7: once Cooldown has been entered three times with no resume in between
\* (the entry from Normal and two re-entries after failed resumption tests),
\* botRunning is false for every session.
C7_FatalStopAtCeiling ==
  holds >= MAX_CONSECUTIVE_COOLDOWNS => \A s \in Sessions : ~botRunning[s]

\* C8: the coordinator goes from Cooldown to Normal only when at least
\* COOLDOWN_DURATION has elapsed since cooldownStartTime.
C8_ExitOnlyAfterHold ==
  [][(COOLDOWN_MODE /\ ~COOLDOWN_MODE')
       => now - cooldownStartTime >= COOLDOWN_DURATION]_vars

\* C9: in Cooldown no worker submits a buy to the queue, the bypass buy of
\* the resumption test apart.
C9_NoBuyInCooldown == ~(event = "buy" /\ COOLDOWN_MODE)

C11_DrainedBeforeResume ==
  [][(COOLDOWN_MODE /\ ~COOLDOWN_MODE') =>
       \A sw \in Workers :
          worker'[sw] # worker[sw] => \A it \in owed : it[1] # sw[1]]_vars

\* C12: the coordinator goes from Cooldown to Normal only on a resumption test
\* whose buy and whose sell both succeeded.
C12_ResumeOnlyAfterFullCycle ==
  [][(COOLDOWN_MODE /\ ~COOLDOWN_MODE') => event' = "exit"]_vars

C14_HalfRateThenNominal ==
  [][/\ (COOLDOWN_MODE /\ ~COOLDOWN_MODE') =>
          /\ rateLimitFailureCount' = 0
          /\ consecutiveCooldowns' = 0
          /\ requestsPerSecond' = Rps(2)
          /\ minDelay' = MinDelayOf(Rps(2))
          /\ (now + GraceMs) \in restoreAt'
     /\ (restoreAt' # restoreAt /\ event' = "none") => \A t \in restoreAt : t > now
     /\ event' = "restore" =>
          /\ requestsPerSecond' = Rps(4)
          /\ minDelay' = MinDelayOf(Rps(4))]_vars

\* C14 witness: after a return to Normal the grace timer has just fired and
\* the queue rate is 4 req/s.
C14_Witness ==
  /\ event = "restore"
  /\ ~COOLDOWN_MODE
  /\ requestsPerSecond = Rps(4)
  /\ restoreAt = {}

\* C15: triggerCooldown() sets cooldownStartTime to now, the rate-limit
\* failure count to 0 and adds exactly 1 to consecutiveCooldowns.
C15_EnterCooldown ==
  [][event' = "trigger" =>
       /\ ~COOLDOWN_MODE /\ COOLDOWN_MODE'
       /\ cooldownStartTime' = now
       /\ rateLimitFailureCount' = 0
       /\ consecutiveCooldowns' = consecutiveCooldowns + 1]_vars

\* C15 witness: the second rate-limit failure inside the window has just
\* moved the coordinator to Cooldown.
C15_Witness ==
  /\ event = "trigger"
  /\ COOLDOWN_MODE
  /\ cooldownStartTime = now
  /\ rateLimitFailureCount = 0
  /\ consecutiveCooldowns = 1

\* the outcomes of a trade that are failures other than a rate limit
OtherErrors == {o \in SellOutcomes : Recorded(o) = "failed"}

\* C16: in every state, what performBuy and performSell record for a failure
\* other than a rate limit leaves rateLimitFailureCount, COOLDOWN_MODE,
\* cooldownStartTime and consecutiveCooldowns as they are and ends the streak
\* of successes of the adaptive rate; and a step of a worker loop in which
\* such a failure is recorded leaves the four unchanged.
C16_OnlyRateLimitsFeedCooldown ==
  /\ [](\A o \in OtherErrors :
          LET c == AfterExec(Cur, o)
          IN /\ c.rateLimitFailureCount = rateLimitFailureCount
             /\ c.lastFailureTime = lastFailureTime
             /\ c.COOLDOWN_MODE = COOLDOWN_MODE
             /\ c.cooldownStartTime = cooldownStartTime
             /\ c.consecutiveCooldowns = consecutiveCooldowns
             /\ c.consecutiveSuccesses = 0)
  /\ [][event' = "otherError" =>
          /\ rateLimitFailureCount' = rateLimitFailureCount
          /\ COOLDOWN_MODE' = COOLDOWN_MODE
          /\ cooldownStartTime' = cooldownStartTime
          /\ consecutiveCooldowns' = consecutiveCooldowns
          /\ consecutiveSuccesses' = 0]_vars

\* C16 witness: with one rate-limit failure on the count, a failure of
\* another kind has just been recorded and the count is still 1.
C16_Witness ==
  /\ event = "otherError"
  /\ ~COOLDOWN_MODE
  /\ rateLimitFailureCount = 1
  /\ consecutiveSuccesses = 0

----------------------------------------------------------------------------
(* Claims about the rate of the queue *)

----------------------------------------------------------------------------
(* Claims about the cache of quotes *)

\* the bucket of an amount: the multiple of BucketSize it is rounded down to
Bucket(amount) == amount \div BucketSize
SamePair(a, b) == a[1] = b[1] /\ a[2] = b[2]
SameSlot(a, b) == SamePair(a, b) /\ Bucket(a[3]) = Bucket(b[3])
Sets == {i \in 1..Len(calls) : calls[i].op = "set"}
Gets == {j \in 1..Len(calls) : calls[j].op = "get"}
\* between calls i and j nothing was set in the slot of t and nothing cleared
Untouched(i, j, t) ==
  \A k \in (i + 1)..(j - 1) :
     /\ calls[k].op # "clear"
     /\ calls[k].op = "set" => ~SameSlot(calls[k].args, t)
\* between calls i and j nothing was set for the pair of t and nothing cleared
PairUntouched(i, j, t) ==
  \A k \in (i + 1)..(j - 1) :
     /\ calls[k].op # "clear"
     /\ calls[k].op = "set" => ~SamePair(calls[k].args, t)

\* C17: a get with the arguments of an earlier set, no more than TTL after
\* it, with no set on that slot and no clear in between, returns the quote
\* that was set.
C17_GetAfterSet ==
  \A i \in Sets, j \in Gets :
     (/\ i < j
      /\ calls[j].args = calls[i].args
      /\ calls[j].at - calls[i].at <= TTL
      /\ Untouched(i, j, calls[i].args))
     => calls[j].out = calls[i].quote

\* C17 witness: a quote set TTL ago, a cleanup since, and a get with the same
\* arguments that has just returned it.
C17_Witness ==
  /\ Len(calls) = 3
  /\ calls[1].op = "set" /\ calls[2].op = "cleanup" /\ calls[3].op = "get"
  /\ calls[3].args = calls[1].args
  /\ calls[3].at - calls[1].at = TTL
  /\ calls[2].at > calls[1].at
  /\ calls[3].out = calls[1].quote

\* C18: a get returns a quote only if it was set no more than TTL before; a
\* get on a slot whose latest quote was set more than TTL before returns a
\* miss and leaves no entry under its key.
C18_NoStaleHit ==
  /\ \A j \in Gets :
        calls[j].out # Null =>
          \E i \in Sets :
             /\ i < j
             /\ calls[i].quote = calls[j].out
             /\ calls[j].at - calls[i].at <= TTL
  /\ \A i \in Sets, j \in Gets :
        (/\ i < j
         /\ SameSlot(calls[i].args, calls[j].args)
         /\ calls[j].at - calls[i].at > TTL
         /\ Untouched(i, j, calls[i].args))
        => /\ calls[j].out = Null
           /\ j = Len(calls) => KeyOf(calls[j].args) \notin DOMAIN cache

\* C18 witness: a get on a quote older than TTL, still in the map, has just
\* missed and the map is empty.
C18_Witness ==
  /\ Len(calls) = 2
  /\ calls[1].op = "set" /\ calls[2].op = "get"
  /\ SameSlot(calls[1].args, calls[2].args)
  /\ calls[2].at - calls[1].at > TTL
  /\ calls[2].out = Null
  /\ misses = 1
  /\ DOMAIN cache = {}

----------------------------------------------------------------------------
(* Claims about the drain loop *)

\* the invocations of process() that are suspended in a sleep, or whose
\* re-scheduling timer is pending
LiveLoops == {k \in Procs : proc[k].pc # "none"}

\* C21: at most one chain of process() invocations is live at any time, and
\* none is live when this.processing is false (the only case in which add()
\* starts one).
C21_SingleDrainLoop ==
  /\ Cardinality(LiveLoops) <= 1
  /\ ~processing => LiveLoops = {}

\* C21 witness: the loop was started once; the later add() calls came while
\* it was suspended and started no second one; every item has been
\* dispatched and the loop is in its 10 ms re-scheduling.
C21_Witness ==
  /\ loopStarts = 1
  /\ nextId = MaxItems
  /\ Len(dispatched) = MaxItems
  /\ \E k \in Procs : proc[k].pc = "timer"

----------------------------------------------------------------------------
(* Claims about the failures of a trade *)

\* C22: a dust error met while selling is recorded nowhere. What performSell
\* records for it leaves the coordinator as it is; a step of a worker that
\* meets it (and is not also the exit from Cooldown that follows the
\* resumption test) leaves the rate-limit failure count and time, the streak
\* of successes, the adaptive check and the queue rate unchanged and adds
\* nothing to failedTxs or failedSells; and in processSellQueue the loop goes
\* on at once to the next wallet of the sell queue, if there is one.
C22_DustIsNoFailure ==
  /\ [](AfterSell(Cur, "dust") = Cur)
  /\ [][tally'.dust =>
          /\ tally'.failedTxs = 0
          /\ tally'.failedSells = 0
          /\ event' \notin {"exit", "exitUnsold"} =>
                /\ rateLimitFailureCount' = rateLimitFailureCount
                /\ lastFailureTime' = lastFailureTime
                /\ consecutiveSuccesses' = consecutiveSuccesses
                /\ lastAdaptiveCheck' = lastAdaptiveCheck
                /\ requestsPerSecond' = requestsPerSecond
                /\ COOLDOWN_MODE' = COOLDOWN_MODE
                /\ consecutiveCooldowns' = consecutiveCooldowns
          /\ \A sw \in Workers :
                (worker[sw].pc = "ceSellTx" /\ worker'[sw] # worker[sw]) =>
                   IF worker[sw].idx + 1 < Len(sellQueue)
                     THEN /\ worker'[sw].pc = "ceSellTx"
                          /\ worker'[sw].idx = worker[sw].idx + 1
                          /\ worker'[sw].item = sellQueue[worker[sw].idx + 2]
                          /\ event' = "sellHigh"
                     ELSE event' = "drained"]_vars

\* C22 witness: the drain phase has just met a dust error on the first wallet
\* of the sell queue and submitted the sell of the second one.
C22_Witness ==
  /\ tally.dust
  /\ tally.failedSells = 0
  /\ event = "sellHigh"
  /\ \E sw \in Workers : worker[sw].pc = "ceSellTx" /\ worker[sw].idx = 1

\* the steps that submit a buy or a sell of performBuy or performSell
Submissions == {"buy", "buyBypass", "sell"}

\* C23: performBuy and performSell make at most maxAttempts attempts at
\* creating the transaction: an attempt that fails with an error that is no
\* rate limit is made again only while fewer than maxAttempts have been made,
\* each retry is one more submission, and the step that takes the failure of
\* the last attempt ends the call with a failure and submits nothing.
C23_AtMostThreeAttempts ==
  /\ [](\A sw \in Workers : worker[sw].att + 1 <= maxAttempts)
  /\ [][/\ tally'.tries <= maxAttempts
         /\ \A sw \in Workers :
               /\ worker'[sw].pc \in {"buyRetry", "sellRetry"} =>
                     worker'[sw].att < maxAttempts
               /\ (worker[sw].pc \in {"buyRetry", "sellRetry"}
                     /\ worker'[sw].pc \in {"buyTx", "sellTx"}) =>
                     (worker'[sw].att = worker[sw].att /\ event' \in Submissions)
               /\ (worker[sw].pc \in {"buyTx", "sellTx"} /\ worker'[sw] # worker[sw]
                     /\ worker[sw].att + 1 = maxAttempts) =>
                     /\ worker'[sw].pc \notin {"buyTx", "sellTx", "buyRetry", "sellRetry"}
                     /\ worker'[sw].att = 0
                     /\ event' \notin Submissions]_vars

\* C23 witness: the third attempt of a performBuy or performSell at creating
\* its transaction has just failed with an error that is no rate limit: the
\* call has returned a failure, counted in failedTxs.
C23_Witness ==
  /\ tally.tries = maxAttempts
  /\ tally.failedTxs = 1
  /\ event = "otherError"
  /\ \A sw \in Workers : worker[sw].pc \notin {"buyTx", "sellTx", "buyRetry", "sellRetry"}

----------------------------------------------------------------------------
(* Claims about stopping *)

\* C24: a worker loop that makes its check at the top of the loop while
\* botRunning of its session is false ends there, and a loop that has ended
\* takes no further step: it submits no buy and no sell.
C24_StoppedLoopEnds ==
  [][\A sw \in Workers :
       /\ (worker[sw].pc = "top" /\ Due(worker[sw]) /\ worker'[sw] # worker[sw]
             /\ ~botRunning[sw[1]]) => worker'[sw].pc = "stopped"
       /\ worker[sw].pc = "stopped" => worker'[sw] = worker[sw]]_vars

\* C24 witness: the user of session 1 stopped it during Cooldown; its loop,
\* which was polling, has ended, while session 2 goes on.
C24_Witness ==
  /\ worker[<<1, 0>>].pc = "stopped"
  /\ ~botRunning[1]
  /\ botRunning[2]
  /\ worker[<<2, 0>>].pc # "stopped"
  /\ COOLDOWN_MODE

----------------------------------------------------------------------------
(* Claims about the adaptive rate *)

\* a step in which performBuy or performSell took the answer to a trade and
\* recordSuccess() or recordFailure() made its adjustment of the queue rate
\* (the step that also leaves Cooldown, and sets the rate itself, apart)
Adjusted ==
  /\ tally'.tries # 0
  /\ lastAdaptiveCheck' # lastAdaptiveCheck
  /\ event' \notin {"exit", "exitUnsold"}
AdjustedBySuccess == Adjusted /\ event' = "none"
AdjustedByFailure == Adjusted /\ event' # "none"

\* C25: the adjustment made by recordSuccess() sets requestsPerSecond to its
\* current value plus 0.5, and so not below it; the adjustment made by
\* recordFailure() does not raise requestsPerSecond.
C25_AdaptiveDirection ==
  [][/\ AdjustedBySuccess =>
          /\ requestsPerSecond' = requestsPerSecond + 5
          /\ requestsPerSecond' >= requestsPerSecond
     /\ AdjustedByFailure => requestsPerSecond' <= requestsPerSecond]_vars

\* C26: when recordSuccess() or recordFailure() calls setRequestsPerSecond(),
\* more than ADAPTIVE_CHECK_INTERVAL has elapsed since the adaptive call before
\* it, if there is one; and when it is recordSuccess() that calls, this
\* success is at least the 10th recorded since the latest recorded failure or
\* adaptive call.
C26_AdaptiveAtMostOncePerInterval ==
  [][tally'.adaptive =>
       /\ lastAdjust = 0 \/ now - lastAdjust > ADAPTIVE_CHECK_INTERVAL
       /\ lastAdjust' = now
       /\ event' \in {"none", "exit"} => streak + 1 >= AdaptiveStreak]_vars

\* C26 witness: less than ADAPTIVE_CHECK_INTERVAL after an adaptive call the
\* streak has reached 10 successes again, and the success just recorded made
\* no adaptive call.
C26_Witness ==
  /\ lastAdjust # 0
  /\ now - lastAdjust < ADAPTIVE_CHECK_INTERVAL
  /\ streak = AdaptiveStreak
  /\ tally.tries # 0
  /\ ~tally.adaptive
  /\ requestsPerSecond = 35

----------------------------------------------------------------------------
(* Claims about the slot of the queue *)

\* C27: activeRequests is the number of items dispatched so far less the
\* number of those whose work has settled, by success or by failure: it is
\* the number of items whose work is running, and it is never negative.
C27_ActiveIsUnsettled ==
  /\ activeRequests = Len(dispatched) - Cardinality({i \in Items : Settled(i)})
  /\ activeRequests = Cardinality({i \in Items : status[i] = "running"})
  /\ activeRequests >= 0

\* C27 witness: one item's work succeeded, another's failed, and a third has
\* been dispatched and is running.
C27_Witness ==
  /\ activeRequests = 1
  /\ \E i \in Items : status[i] = "resolved"
  /\ \E i \in Items : status[i] = "rejected"
  /\ \E i \in Items : status[i] = "running"

\* C28: the promise returned by add() resolves with the value that the work
\* returned or rejects with the error that the work threw, and stays pending
\* until the work settles; and (timers firing, work settling, clearQueue()
\* not called) every item that is waiting in the queue when the work of
\* another item has failed is dispatched.
C28_ResultsPassThrough ==
  /\ [](\A i \in Items :
          /\ result[i].work[1] = "value" => result[i].future = <<"resolved", result[i].work[2]>>
          /\ result[i].work[1] = "error" => result[i].future = <<"rejected", result[i].work[2]>>
          /\ result[i].work = Pending => result[i].future = Pending
          /\ status[i] = "resolved" <=> result[i].work[1] = "value"
          /\ status[i] = "rejected" <=> result[i].work[1] = "error")
  /\ \A j \in Items :
        (status[j] = "queued" /\ \E i \in Items : status[i] = "rejected")
          ~> (WasDispatched(j) \/ cleared)

\* C28 witness: the work of the first item dispatched failed and its promise
\* rejected with its error; the other items, one of them added behind a
\* waiting one, have been dispatched since and their promises resolved with
\* their own values.
C28_Witness ==
  /\ Len(dispatched) = MaxItems
  /\ result[dispatched[1]].future = <<"rejected", dispatched[1]>>
  /\ \A j \in Items \ {dispatched[1]} : result[j].future = <<"resolved", j>>
  /\ \E j \in Items : waitingAtAdd[j] # {}
  /\ ~cleared
----------------------------------------------------------------------------
(* Claims about the work items of the queue *)

\* the items whose fetch of /quote came back without a quote
QuoteFailed(i) == job[i].fetched \in QuoteOutcomes \ {"ok"}
\* the items that fetched a quote for the key of the arguments t
Fetched(t) == {i \in Items : job[i].fetched = "ok" /\ KeyOf(job[i].args) = KeyOf(t)}

\* C29: an entry of the QuoteCache is created only after a successful fetch of
\* the quote.  Every entry holds the quote that an item fetched with success
\* for its key; the step in which the fetch of an item fails (status not OK,
\* error field, no outAmount) leaves the cache as it was; and an item finds
\* its quote in the cache only if some item fetched one with success for its
\* key, so after failures alone the next lookup of the key is a miss again.
C29_CachedOnlyAfterQuote ==
  /\ [](\A k \in DOMAIN cache :
          /\ cache[k].quote \in Items
          /\ job[cache[k].quote].fetched = "ok"
          /\ KeyOf(job[cache[k].quote].args) = k)
  /\ [][\A i \in Items :
          /\ (~QuoteFailed(i) /\ QuoteFailed(i)') => cache' = cache
          /\ (job[i].pc = "new" /\ job'[i].pc = "swap") => Fetched(job'[i].args) # {}
          /\ (job[i].pc = "new" /\ job'[i].pc = "quote") =>
                KeyOf(job'[i].args) \notin DOMAIN cache']_vars

\* two items in a row have failed to fetch the quote of one key, in two of the
\* ways, the cache is empty, and the third item has missed and fetches it again
C29_Witness ==
  /\ cache = << >>
  /\ misses = 3
  /\ \E i, j, k \in Items :
       /\ WasDispatched(k) /\ Before(i, j) /\ Before(j, k)
       /\ job[i].fetched \in {"notOk", "errorField", "noOutAmount"}
       /\ job[j].fetched \in {"notOk", "errorField", "noOutAmount"} \ {job[i].fetched}
       /\ KeyOf(job[j].args) = KeyOf(job[i].args)
       /\ KeyOf(job[k].args) = KeyOf(job[i].args)
       /\ job[k].pc = "quote"

\* C30: a work item of the queue makes at most one call to the Jupiter API, so
\* that every call to the API comes at least minDelay after the call before
\* (calls made before the clock's horizon).
C30_OneCallPerItem ==
  /\ \A i \in Items : api.count[i] <= 1
  /\ (~api.first /\ api.at < QMaxTime) => api.gap * api.den >= api.num

----------------------------------------------------------------------------
(* Claims about consecutive failures *)

C32_NoReentryInCooldown ==
  [][(COOLDOWN_MODE /\ tally'.limited) =>
        /\ cooldownStartTime' = cooldownStartTime
        /\ consecutiveCooldowns' = consecutiveCooldowns
        /\ botRunning' = botRunning]_vars

\* C32, amended: while the mode is Cooldown, recordRateLimitFailure() leaves
\* the mode, cooldownStartTime, consecutiveCooldowns and botRunning as they
\* are, whatever the count it reaches; a step that records a
\* rate-limit failure in Cooldown never enters Cooldown again through
\* triggerCooldown: it does not raise consecutiveCooldowns, stops no session,
\* and leaves cooldownStartTime as it was unless the failure makes the
\* resumption test fail, which starts the hold again as every failed
\* resumption test does; consecutiveCooldowns changes only if the step is the
\* one that leaves Cooldown.
C32_FailureInCooldownOnlyCounts ==
  /\ [](COOLDOWN_MODE =>
          LET c == recordRateLimitFailure(Cur)
          IN /\ c.COOLDOWN_MODE
             /\ c.cooldownStartTime = cooldownStartTime
             /\ c.consecutiveCooldowns = consecutiveCooldowns
             /\ c.botRunning = botRunning
             /\ c.holds = holds)
  /\ [][(COOLDOWN_MODE /\ tally'.limited) =>
          /\ event' # "trigger"
          /\ consecutiveCooldowns' <= consecutiveCooldowns
          /\ botRunning' = botRunning
          /\ cooldownStartTime' = cooldownStartTime \/ event' = "resumeFail"
          /\ consecutiveCooldowns' = consecutiveCooldowns \/ ~COOLDOWN_MODE']_vars

\* the sell of a loop has been rate-limited in Cooldown and nothing but the
\* count has moved; one more failure now would bring the count to the threshold
C32_Witness ==
  /\ COOLDOWN_MODE
  /\ event = "rateLimit"
  /\ tally.limited
  /\ rateLimitFailureCount = RATE_LIMIT_THRESHOLD - 1
  /\ lastFailureTime = now
  /\ consecutiveCooldowns = 1
  /\ cooldownStartTime # now
  /\ \A s \in Sessions : botRunning[s]

----------------------------------------------------------------------------
(* Claims about the count of Cooldowns *)

\* C33: in every state in which the mode is Normal consecutiveCooldowns is 0:
\* the counter is raised only by the step that takes the mode from Normal to
\* Cooldown, and the step that takes the mode back to Normal leaves it at 0.
C33_NormalHasNoCooldowns ==
  /\ [](~COOLDOWN_MODE => consecutiveCooldowns = 0)
  /\ [][/\ consecutiveCooldowns' > consecutiveCooldowns =>
            (~COOLDOWN_MODE /\ COOLDOWN_MODE')
        /\ (COOLDOWN_MODE /\ ~COOLDOWN_MODE') => consecutiveCooldowns' = 0]_vars

\* the resumption test has just brought the mode back to Normal from a Cooldown
\* that was counted, and the counter is 0 again
C33_Witness ==
  /\ ~COOLDOWN_MODE
  /\ event = "exit"
  /\ consecutiveCooldowns = 0
  /\ restoreAt # {}
  /\ requestsPerSecond = Rps(2)

----------------------------------------------------------------------------
(* Claims about the recovery *)

\* the loops that are inside checkAndExitCooldown: at the canary, building or
\* draining the sell queue, or in the resumption test
InRecovery(sw) ==
  \/ worker[sw].pc \in {"ceCanary", "ceBuild", "ceSellTx", "ceSellNext"}
  \/ worker[sw].ctx = "test"

\* C34: at most one execution of the recovery sequence of checkAndExitCooldown
\* (canary, build of the sell queue, drain, resumption test, exit) is under
\* way at any moment, also with several sessions.
C34_OneRecoveryAtATime ==
  Cardinality({sw \in Workers : InRecovery(sw)}) <= 1

----------------------------------------------------------------------------
(* Claims about the grace window *)

\* the 120 s after a step from Cooldown to Normal: the timer that the step set
\* has not run out
InGrace == \E t \in restoreAt : t > now

\* C35: from a step from Cooldown to Normal until the end of its grace window
\* of 120 s the rate of the queue is never above 2 requests per second.
C35_GraceKeepsReducedRate == InGrace => requestsPerSecond <= Rps(2)

----------------------------------------------------------------------------
(* Claims about the sells in Cooldown *)

\* C36: sells are not gated by Cooldown.  A loop that comes to its sell while
\* the mode is Cooldown, with the tokens of its buy in the wallet, submits the
\* sell to the queue in that step, whenever the wallet can pay the fee and the
\* balance of tokens is read: it does not go back to wait.
C36_SellNotGated ==
  [][\A sw \in Workers :
       (/\ COOLDOWN_MODE
        /\ worker[sw].pc = "sell" /\ worker[sw].ctx = "loop" /\ Due(worker[sw])
        /\ tokens[sw]
        /\ worker'[sw] # worker[sw]
        /\ envFaults' = envFaults)
       => (worker'[sw].pc = "sellTx" /\ event' = "sell" /\ COOLDOWN_MODE')]_vars

\* the mode is Cooldown, entered by the failures of the other loop, and a loop
\* has just submitted the sell of the tokens that it bought before, while its
\* wallet is in no sell queue
C36_Witness ==
  \E sw \in Workers :
    /\ COOLDOWN_MODE
    /\ event = "sell"
    /\ worker[sw].pc = "sellTx" /\ worker[sw].ctx = "loop"
    /\ tokens[sw]
    /\ sw \notin owed
    /\ sellQueue = <<>>

----------------------------------------------------------------------------
(* Claims about the handlers of a rate-limit error *)

\* C38: a rate-limit error met while creating the transaction of a buy or of a
\* sell ends the call of performBuy or performSell in that step, whatever
\* the number of attempts made so far: the loop is back at its top or at its
\* next trade, with no attempt pending.  A step that records a rate-limit
\* failure, in the handler of the attempts or in the handler of the function,
\* adds exactly one to the count of the failures of the last 10 s, and the
\* count is 0 after it only when the mode changed in the step; it enters
\* Cooldown only when that one brings the count to the threshold.
C38_RateLimitEndsCallCountedOnce ==
  /\ [][(tally'.limited /\ tally'.failedTxs = 0) =>
          \A sw \in Workers :
            worker'[sw] # worker[sw] =>
              (worker'[sw].pc \in {"top", "buyBalance"} /\ worker'[sw].att = 0)]_vars
  /\ [][tally'.limited =>
          LET n == IF WindowExpired(Cur) THEN 0 ELSE rateLimitFailureCount
          IN /\ lastFailureTime' = now
             /\ rateLimitFailureCount' =
                  IF event' \in {"trigger", "exit", "exitUnsold"} THEN 0 ELSE n + 1
             /\ event' = "trigger" => n + 1 >= RATE_LIMIT_THRESHOLD]_vars

\* the second attempt at creating a transaction has just met a rate-limit
\* error: the call has returned with one failure counted, no failed
\* transaction counted, and its loop sleeps before its next round
C38_Witness ==
  \E sw \in Workers :
    /\ event = "rateLimit"
    /\ tally.limited /\ tally.failedTxs = 0 /\ tally.tries = 2
    /\ rateLimitFailureCount = 1 /\ lastFailureTime = now
    /\ ~COOLDOWN_MODE
    /\ worker[sw].pc = "top" /\ worker[sw].wake > now /\ worker[sw].att = 0

----------------------------------------------------------------------------
(* Claims about the probe of the rate limit *)

\* C39: in the probe, the wait of the cooldown is 60 s at the first
\* rate-limited response after the start or after a successful response, and
\* twice the wait before it, but no more than 10 min, at each rate-limited
\* response after that one: after n of them it is the smaller of
\* 60 s * 2^(n-1) and 10 min, and the probe sleeps that long.  It never
\* exceeds 10 min.  The first successful response sets it to 0 with the delay
\* between two requests at 200 ms, which is what the probe sleeps then.
C39_ProbeBackoff ==
  /\ [](probe.cooldownMs <= MaxCooldown)
  /\ [](probe.cooldownMs =
          IF probe.run = 0 THEN 0
          ELSE Min(FirstCooldown * 2 ^ (probe.run - 1), MaxCooldown))
  /\ [][(probe'.totalRequests > probe.totalRequests /\ probe'.last = "429") =>
          /\ probe'.cooldownMs = IF probe.run = 0 THEN FirstCooldown
                                  ELSE Min(2 * probe.cooldownMs, MaxCooldown)
          /\ probe'.wait = probe'.cooldownMs
          /\ probe'.wake = now + probe'.cooldownMs]_vars
  /\ [][(probe'.totalRequests > probe.totalRequests /\ probe'.last = "ok") =>
          /\ probe'.cooldownMs = 0
          /\ probe'.DELAY_BETWEEN_REQUESTS = SafeDelay
          /\ probe'.wait = SafeDelay]_vars

\* the probe was rate limited and recovered, and since then five responses
\* in a row were rate limited: the wait would be 16 min and is 10 min
C39_Witness ==
  /\ probe.last = "429"
  /\ probe.run = 5
  /\ probe.successfulRequests >= 1
  /\ probe.rateLimitHits > probe.run
  /\ probe.isRateLimited
  /\ probe.cooldownMs = MaxCooldown
  /\ probe.wait = MaxCooldown

----------------------------------------------------------------------------
(* Claims about the way out of Cooldown *)

\* C37: Cooldown is not a trap.  With fair scheduling, and the answers other
\* than the expected one bounded in number, whenever the mode is Cooldown it
\* is Normal later, unless botRunning is false for every session by then; and
\* every loop that is polling at its top while the mode is Cooldown is later
\* in performBuy of its cycle with the mode Normal, unless botRunning of its
\* session is false by then.  The flag isSellQueueProcessing, which keeps
\* the loops from starting a recovery, is true only while a loop is in the
\* drain of the sell queue.
C37_CooldownIsNoTrap ==
  /\ [](isSellQueueProcessing =>
          \E sw \in Workers : worker[sw].pc \in {"ceSellTx", "ceSellNext"})
  /\ COOLDOWN_MODE ~> (~COOLDOWN_MODE \/ \A s \in Sessions : ~botRunning[s])
  /\ \A sw \in Workers :
       (COOLDOWN_MODE /\ worker[sw].pc = "top" /\ worker[sw].ctx = "loop")
         ~> \/ /\ ~COOLDOWN_MODE
               /\ worker[sw].pc = "buyBalance" /\ worker[sw].ctx = "loop"
            \/ ~botRunning[sw[1]]

\* two answers other than the expected one came during the Cooldown, no
\* session was stopped, the mode is Normal again and both loops are in the
\* trades of their cycle
C37_Witness ==
  /\ ~COOLDOWN_MODE
  /\ envFaults = MaxFaults
  /\ \A s \in Sessions : botRunning[s]
  /\ \A sw \in Workers :
       worker[sw].ctx = "loop" /\ worker[sw].pc \in {"buyTx", "sell", "sellTx"}

====
